---- MODULE Spec2Model ----
(***************************************************************************)
(* Model of the Aegilon MEV detection core.                                *)
(*                                                                         *)
(* MEVDetector (contracts/MEVDetector.sol): the owner-only detectMEV call, *)
(* its three pattern detectors, the 100-slot gas-price ring buffer and the *)
(* per-feed last-price map.  A Solidity call is atomic: a revert (failed   *)
(* require, checked-arithmetic panic, missing oracle data) rolls back      *)
(* every write made by the call.  Values are uint256 in the contract; the  *)
(* model uses small naturals, far away from 2^256, and models the two      *)
(* checked-arithmetic panics that small values can trigger (division by    *)
(* zero and subtraction underflow).                                        *)
(*                                                                         *)
(* MEVProtectorAdvanced (contracts/MEVProtectorAdvanced.sol): per-user     *)
(* protection configs, the guarded protectSwap call with its strategy      *)
(* dispatch, escrow/refund of tokenIn and the protection fee.  protectSwap *)
(* calls the detector from the protector's address, so the detector's     *)
(* writes are part of the same atomic call.                                *)
(*                                                                         *)
(* MEVProtector (contracts/MEVProtector.sol): the indexer-only threat      *)
(* registry and oracle price store with the price-anomaly check.           *)
(*                                                                         *)
(* Subgraph analytics (mev-detection in unnamed/part_003, and the          *)
(* handlers of subgraph/src): risk scoring of indexed transactions over    *)
(* the cache of recent transactions, and the MEVAlert entities saved.      *)
(***************************************************************************)
EXTENDS Integers, Sequences, FiniteSets, TLC

\* ------------------------------------------------------------------------
\* Bounds of the model
\* ------------------------------------------------------------------------
MaxCalls == 1          \* detectMEV calls explored by Spec
MaxSeqCalls == 2       \* detectMEV calls explored by SpecSeq
MaxTime == 21          \* largest block timestamp explored
MaxGasRecords == 102   \* detectMEV calls explored by SpecGas (wraps the ring)
MaxSpikes == 1         \* SpecGas: records that may differ from BaseGas
MaxSwaps == 1          \* protectSwap calls explored by SpecProt
MaxDelaySwaps == 2     \* protectSwap calls explored by SpecDelay
MaxAdminSwaps == 1     \* protectSwap calls explored by SpecAdmin
MaxOracleTime == 601    \* SpecOracle: seconds on the clock, two windows
MaxAnalyses == 2        \* transactions analysed, so cached, by the analytics
MaxBaselineCalls == 3   \* detectMEV calls explored by SpecBaseline
MaxStatsSwaps == 2      \* protectSwap calls explored by SpecStats
MaxStakeFunded == 7300  \* AEG the staker is sent by the deployer, in SpecToken
MaxStakingDays == 4     \* days that pass in SpecToken
MaxThreats == 2         \* threats recorded by detectMEVThreat
MaxReports == 2         \* reports made by one reporter
MaxReportTime == 3      \* block.timestamp reached in SpecReports
MaxBlock == 3           \* blocks the subgraph indexes in SpecMonitor

Addresses == {"owner", "user1"}
FeedIds == {"ETH", "USDC"}
ExpectedPrices == {0, 2000}
OracleValues == {0, 2100, 2101, 4100}
GasPrices == {20, 50}
RiskThresholdValues == {500, 10000}
MinPriceDeltaValues == {0, 100}
FrontRunGasMultiplierValues == {50, 120}
SeqOracleValues == {2100, 2101, 4100}
TickSteps == {20}
BaseGas == 20
SpikeGas == 50

\* What the RedStone payload of the transaction yields for the feed:
\* a value, or no (valid) data, in which case the oracle read reverts.
OracleReadings ==
  [ok : {TRUE}, value : OracleValues] \cup [ok : {FALSE}, value : {0}]

\* ------------------------------------------------------------------------
\* Program constants
\* ------------------------------------------------------------------------
GAS_HISTORY_SIZE == 100
ArbitrageWindow == 30
ArbitrageScore == 300
BasisPoints == 10000
InitialRiskThreshold == 500
InitialMinPriceDelta == 100
InitialFrontRunGasMultiplier == 120

ThreatTypes == {"SANDWICH", "FRONTRUN", "ARBITRAGE", "UNKNOWN"}
Slots == 0 .. (GAS_HISTORY_SIZE - 1)

VARIABLES
  owner,                 \* Ownable.owner of the detector
  riskThreshold,
  minPriceDelta,
  frontRunGasMultiplier,
  lastPrices,            \* feedId -> uint
  lastUpdateTimestamp,   \* feedId -> uint
  gasHistory,            \* slot -> uint
  gasHistoryIndex,
  now,                   \* block.timestamp
  call,                  \* the latest external call and the state it saw
  ret,                   \* what that call returned, or its revert
  samples,               \* history: gas prices recorded by successful calls
  observed,              \* history: feeds passed to a successful detectMEV
  calls                  \* history: number of detectMEV calls made

detectorState ==
  <<owner, riskThreshold, minPriceDelta, frontRunGasMultiplier,
    lastPrices, lastUpdateTimestamp, gasHistory, gasHistoryIndex>>

\* ------------------------------------------------------------------------
\* MEVProtectorAdvanced: constants and state
\* ------------------------------------------------------------------------
Users == {"user1", "user2"}
Tokens == {"TKA", "TKB"}
Strategies == {"REVERT", "ADJUST", "DELAY", "PRIVATE_RELAY"}

MaxSlippageCap == 1000          \* require(maxSlippage <= 1000)
MinGasLimit == 100000           \* require(gasLimit >= 100000)
InitialProtectionFee == 100     \* basis points
maxProtectionFee == 500
WAD == 1000                     \* stands for the 1e18 divisor of _executeSwap
InitialTokenBalance == 100      \* tokenIn minted to each user at setup
TreasuryAddresses == {"treasury", "treasury2"}
DetectorAddresses == {"detector", "detector2"}

\* mapping default of userConfigs: the zero-initialised struct
NoConfig ==
  [isActive |-> FALSE, strategy |-> "REVERT", maxSlippage |-> 0,
   gasLimit |-> 0, whitelistMode |-> FALSE]

NoStats ==
  [totalProtectedSwaps |-> 0, threatsDetected |-> 0, threatsBlocked |-> 0,
   totalValueProtected |-> 0, feesCollected |-> 0]

VARIABLES
  userConfigs,           \* user -> ProtectionConfig
  userStats,             \* user -> ProtectionStats
  globalStats,
  whitelistedTokens,     \* set of tokens mapped to true
  priceDelays,           \* feedId -> uint
  protectionFee,
  tokenBalance,          \* tokenIn: holder -> balance
  allowance,             \* tokenIn: user -> allowance given to the protector
  ethBalance,            \* native value received by the protector and by
                         \* the addresses that can be its treasury
  treasury,              \* address the fee is forwarded to
  detector,              \* address of the MEVDetector the protector calls
  pcall,                 \* the latest call made to the protector
  pret,                  \* what that call returned, or its revert
  swaps                  \* history: number of protectSwap calls made

protectorState ==
  <<userConfigs, userStats, globalStats, whitelistedTokens, priceDelays,
    protectionFee, tokenBalance, allowance, ethBalance, treasury, detector>>

protectorVars ==
  <<userConfigs, userStats, globalStats, whitelistedTokens, priceDelays,
    protectionFee, tokenBalance, allowance, ethBalance, treasury, detector,
    pcall, pret, swaps>>

\* ------------------------------------------------------------------------
\* MEVProtector: constants and state
\* ------------------------------------------------------------------------
MevProtectorOwner == "owner"    \* the deployer
ZeroAddress == "zero"
Symbols == {"ETH", "BTC"}
InitialPriceDeviationThreshold == 200
MaxPriceDeviationThreshold == 1000
OracleFreshnessWindow == 300
protectionSuccessReward == 5    \* AEG, in whole tokens
SandwichLoss == 1000            \* analyzeThreatSeverity, in whole dollars
FrontrunLoss == 500
OtherLoss == 100

VARIABLES
  authorizedIndexer,
  priceDeviationThreshold,
  lastOraclePrices,        \* symbol -> uint
  lastOracleUpdate,        \* symbol -> uint
  detectedThreats,         \* set of threat ids mapped to true
  threats,                 \* threat id -> ThreatData, for the ids stored
  isProtected,             \* user -> bool
  protectionLevel,         \* user -> uint
  successfulPrevented,     \* user -> uint
  mevProtectorContract,    \* AegilonToken: the address allowed to reward
  rewardsMinted,           \* AegilonToken: AEG minted by rewardThreatReporter
  mcall,                   \* the latest call made to MEVProtector or the token
  mret                     \* what that call returned, or its revert

mevProtectorState ==
  <<authorizedIndexer, priceDeviationThreshold, lastOraclePrices,
    lastOracleUpdate, detectedThreats, threats, isProtected, protectionLevel,
    successfulPrevented, mevProtectorContract, rewardsMinted>>

mevProtectorVars ==
  <<authorizedIndexer, priceDeviationThreshold, lastOraclePrices,
    lastOracleUpdate, detectedThreats, threats, isProtected, protectionLevel,
    successfulPrevented, mevProtectorContract, rewardsMinted, mcall, mret>>

\* ------------------------------------------------------------------------
\* Subgraph analytics: constants and state
\* ------------------------------------------------------------------------
SANDWICH_TIME_WINDOW == 5
FRONT_RUN_GAS_MULTIPLIER == 115
MAX_RECENT_TRANSACTIONS == 50
NoAddress == "none"         \* a transaction without a `to`

VARIABLES
  recentTransactions,      \* the module's cache, oldest first
  transactions,            \* the Transaction entities saved, by hash
  alerts,                  \* the MEVAlert entities saved, by id
  acall                    \* the latest analysis and what it computed

analyticsState == <<recentTransactions, transactions, alerts>>
analyticsVars == <<recentTransactions, transactions, alerts, acall>>

\* ------------------------------------------------------------------------
\* AegilonToken, and MEVProtector's reporting and pausing: constants and
\* state.  Token amounts are in whole AEG (1 stands for 10**18).
\* ------------------------------------------------------------------------
TOTAL_SUPPLY == 10000000
LIQUIDITY_REWARDS == 4000000
GOVERNANCE_TREASURY == 3000000
TEAM_ALLOCATION == 2000000
COMMUNITY_AIRDROP == 1000000
stakingAPR == 500                 \* basis points
protectionBoostMultiplier == 150
threatReportReward == 10          \* AEG
Day == 86400                      \* seconds
TokenOwner == "owner"             \* the deployer of the token
Holders == Users \cup {"owner", "indexer", "treasury", "liquidity", "token"}

VARIABLES
  totalSupply,             \* AegilonToken: ERC20 total supply
  balanceOf,               \* AegilonToken: holder -> balance
  stakedBalance,           \* AegilonToken: holder -> staked amount
  stakingRewards,          \* AegilonToken: holder -> rewards set aside
  lastStakeTime,           \* AegilonToken: holder -> timestamp
  threatReports,           \* MEVProtector: reporter -> number of reports
  paused                   \* MEVProtector: Pausable

tokenVars ==
  <<totalSupply, balanceOf, stakedBalance, stakingRewards, lastStakeTime,
    threatReports, paused>>

\* ------------------------------------------------------------------------
\* MEVMonitoringStream and the subgraph it polls: constants and state
\* ------------------------------------------------------------------------
PageSize == 100                   \* `first: 100` of the alert query

VARIABLES
  isRunning,               \* MEVMonitoringStream.isRunning
  lastBlockProcessed,      \* MEVMonitoringStream.lastBlockProcessed
  alertCount,              \* MEVMonitoringStream.alertCount
  mevAlerts,               \* subgraph: block number of each alert, by id
  metaBlock,               \* subgraph: _meta.block.number
  processedAlerts,         \* how often processAlert received each alert
  startBlock               \* the block start() observed

monitorVars ==
  <<isRunning, lastBlockProcessed, alertCount, mevAlerts, metaBlock,
    processedAlerts, startBlock>>

\* what an operation of MEVDetector or MEVProtectorAdvanced never touches
otherComponents == <<mevProtectorVars, analyticsVars, tokenVars, monitorVars>>

vars ==
  <<owner, riskThreshold, minPriceDelta, frontRunGasMultiplier,
    lastPrices, lastUpdateTimestamp, gasHistory, gasHistoryIndex,
    now, call, ret, samples, observed, calls,
    userConfigs, userStats, globalStats, whitelistedTokens, priceDelays,
    protectionFee, tokenBalance, allowance, ethBalance, treasury, detector,
    pcall, pret, swaps,
    authorizedIndexer, priceDeviationThreshold, lastOraclePrices,
    lastOracleUpdate, detectedThreats, threats, isProtected, protectionLevel,
    successfulPrevented, mevProtectorContract, rewardsMinted, mcall, mret,
    recentTransactions, transactions, alerts, acall,
    totalSupply, balanceOf, stakedBalance, stakingRewards, lastStakeTime,
    threatReports, paused,
    isRunning, lastBlockProcessed, alertCount, mevAlerts, metaBlock,
    processedAlerts, startBlock>>

\* ------------------------------------------------------------------------
\* Checked arithmetic of Solidity ^0.8
\* ------------------------------------------------------------------------
\* variant: a zero divisor silently yields 0
CheckedDivSilent(a, b) ==
  IF b = 0 THEN [ok |-> TRUE, val |-> 0] ELSE [ok |-> TRUE, val |-> a \div b]

\* a / b : Panic(0x12) when b = 0
CheckedDiv(a, b) ==
  IF b = 0 THEN [ok |-> FALSE, val |-> 0] ELSE [ok |-> TRUE, val |-> a \div b]

\* a - b : Panic(0x11) when b > a
CheckedSub(a, b) ==
  IF b > a THEN [ok |-> FALSE, val |-> 0] ELSE [ok |-> TRUE, val |-> a - b]

\* cond ? a - b : b - a
AbsDiff(a, b) == IF a > b THEN a - b ELSE b - a

\* ------------------------------------------------------------------------
\* Gas history
\* ------------------------------------------------------------------------
\* variant: the cursor wraps one slot early
_updateGasHistoryShortWrap(hist, idx, gasPrice) ==
  [gasHistory |-> [hist EXCEPT ![idx] = gasPrice],
   gasHistoryIndex |-> (idx + 1) % (GAS_HISTORY_SIZE - 1)]

\* variant: the cursor is not advanced, the next sample lands on this one
_updateGasHistoryNoAdvance(hist, idx, gasPrice) ==
  [gasHistory |-> [hist EXCEPT ![idx] = gasPrice],
   gasHistoryIndex |-> idx]

_updateGasHistory(hist, idx, gasPrice) ==
  [gasHistory |-> [hist EXCEPT ![idx] = gasPrice],
   gasHistoryIndex |-> (idx + 1) % GAS_HISTORY_SIZE]

\* The sum of the positive entries of slots lo .. hi-1: the loop of
\* _getAverageGasPrice, summed by halves to keep the evaluation shallow.
RECURSIVE GasSumRange(_, _, _)
GasSumRange(hist, lo, hi) ==
  IF hi <= lo THEN 0
  ELSE IF hi = lo + 1 THEN (IF hist[lo] > 0 THEN hist[lo] ELSE 0)
  ELSE GasSumRange(hist, lo, (lo + hi) \div 2)
       + GasSumRange(hist, (lo + hi) \div 2, hi)

GasSum(hist, i) == GasSumRange(hist, i, GAS_HISTORY_SIZE)

GasCount(hist) == Cardinality({i \in Slots : hist[i] > 0})

\* variant: the mean is taken over all slots, written or not
_getAverageGasPriceOverAllSlots(hist) ==
  IF GasCount(hist) > 0 THEN GasSum(hist, 0) \div GAS_HISTORY_SIZE ELSE 0

_getAverageGasPrice(hist) ==
  IF GasCount(hist) > 0 THEN GasSum(hist, 0) \div GasCount(hist) ELSE 0

getAverageGasPrice == _getAverageGasPrice(gasHistory)

getPriceHistory(feedId) == <<lastPrices[feedId], lastUpdateTimestamp[feedId]>>

\* ------------------------------------------------------------------------
\* Pattern detectors
\* ------------------------------------------------------------------------
_detectFrontRunning(txGasPrice, avgGasPrice) ==
  txGasPrice > (avgGasPrice * frontRunGasMultiplier) \div 100

\* variant: a change equal to minPriceDelta already counts
_detectArbitragePatternInclusive(prices, updates, feedId, currentPrice) ==
  LET lastPrice == prices[feedId]
      lastUpdate == updates[feedId]
  IN IF lastPrice = 0 \/ lastUpdate = 0 THEN FALSE
     ELSE IF now - lastUpdate <= ArbitrageWindow
          THEN (AbsDiff(currentPrice, lastPrice) * BasisPoints) \div lastPrice
                 >= minPriceDelta
          ELSE FALSE

\* prices, updates: the two mappings as the detector reads them
_detectArbitragePattern(prices, updates, feedId, currentPrice) ==
  LET lastPrice == prices[feedId]
      lastUpdate == updates[feedId]
  IN IF lastPrice = 0 \/ lastUpdate = 0 THEN FALSE
     ELSE IF now - lastUpdate <= ArbitrageWindow
          THEN (AbsDiff(currentPrice, lastPrice) * BasisPoints) \div lastPrice
                 > minPriceDelta
          ELSE FALSE

Returned(isThreat, threatType, riskScore) ==
  [status |-> "ok", error |-> "", isThreat |-> isThreat,
   threatType |-> threatType, riskScore |-> riskScore]

Reverted(error) ==
  [status |-> "revert", error |-> error, isThreat |-> FALSE,
   threatType |-> "UNKNOWN", riskScore |-> 0]

\* variant: slippage equal to the threshold already fires
VerdictSandwichAtThreshold(slippagePercentage, txGasPrice, avgGasPrice, arbitrage) ==
  IF slippagePercentage >= riskThreshold
  THEN Returned(TRUE, "SANDWICH", slippagePercentage)
  ELSE IF avgGasPrice > 0 /\ _detectFrontRunning(txGasPrice, avgGasPrice)
  THEN LET excess == CheckedSub(txGasPrice, avgGasPrice)
       IN IF ~excess.ok THEN Reverted("ArithmeticPanic")
          ELSE Returned(TRUE, "FRONTRUN",
                        (excess.val * BasisPoints) \div avgGasPrice)
  ELSE IF arbitrage
  THEN Returned(TRUE, "ARBITRAGE", ArbitrageScore)
  ELSE Returned(FALSE, "UNKNOWN", 0)

\* variant: the gas check is tried before the slippage check
VerdictFrontRunFirst(slippagePercentage, txGasPrice, avgGasPrice, arbitrage) ==
  IF avgGasPrice > 0 /\ _detectFrontRunning(txGasPrice, avgGasPrice)
  THEN LET excess == CheckedSub(txGasPrice, avgGasPrice)
       IN IF ~excess.ok THEN Reverted("ArithmeticPanic")
          ELSE Returned(TRUE, "FRONTRUN",
                        (excess.val * BasisPoints) \div avgGasPrice)
  ELSE IF slippagePercentage > riskThreshold
  THEN Returned(TRUE, "SANDWICH", slippagePercentage)
  ELSE IF arbitrage
  THEN Returned(TRUE, "ARBITRAGE", ArbitrageScore)
  ELSE Returned(FALSE, "UNKNOWN", 0)

\* The decision tree of detectMEV once slippage, the average over the
\* updated gas history and the arbitrage predicate are known.
Verdict(slippagePercentage, txGasPrice, avgGasPrice, arbitrage) ==
  IF slippagePercentage > riskThreshold
  THEN Returned(TRUE, "SANDWICH", slippagePercentage)
  ELSE IF avgGasPrice > 0 /\ _detectFrontRunning(txGasPrice, avgGasPrice)
  THEN LET excess == CheckedSub(txGasPrice, avgGasPrice)
       IN IF ~excess.ok THEN Reverted("ArithmeticPanic")
          ELSE Returned(TRUE, "FRONTRUN",
                        (excess.val * BasisPoints) \div avgGasPrice)
  ELSE IF arbitrage
  THEN Returned(TRUE, "ARBITRAGE", ArbitrageScore)
  ELSE Returned(FALSE, "UNKNOWN", 0)

\* variant: detectMEV without onlyOwner
detectMEVAnyCaller(caller, feedId, expectedPrice, oracle, txGasPrice) ==
  LET unchanged(r) ==
        [ret |-> r, lastPrices |-> lastPrices,
         lastUpdateTimestamp |-> lastUpdateTimestamp,
         gasHistory |-> gasHistory, gasHistoryIndex |-> gasHistoryIndex]
  IN
  IF ~oracle.ok THEN unchanged(Reverted("OracleDataMissing"))
  ELSE
    LET currentPrice == oracle.value
        prices == [lastPrices EXCEPT ![feedId] = currentPrice]
        updates == [lastUpdateTimestamp EXCEPT ![feedId] = now]
        delta == AbsDiff(currentPrice, expectedPrice)
        slippage == CheckedDiv(delta * BasisPoints, expectedPrice)
    IN
    IF ~slippage.ok THEN unchanged(Reverted("DivisionByZero"))
    ELSE
      LET gas == _updateGasHistory(gasHistory, gasHistoryIndex, txGasPrice)
          r == Verdict(slippage.val, txGasPrice,
                       _getAverageGasPrice(gas.gasHistory),
                       _detectArbitragePattern(prices, updates, feedId,
                                               currentPrice))
      IN IF r.status = "revert" THEN unchanged(r)
         ELSE [ret |-> r, lastPrices |-> prices,
               lastUpdateTimestamp |-> updates,
               gasHistory |-> gas.gasHistory,
               gasHistoryIndex |-> gas.gasHistoryIndex]

\* variant: the average is taken before the sample of the call is written
detectMEVAverageBeforeWrite(caller, feedId, expectedPrice, oracle, txGasPrice) ==
  LET unchanged(r) ==
        [ret |-> r, lastPrices |-> lastPrices,
         lastUpdateTimestamp |-> lastUpdateTimestamp,
         gasHistory |-> gasHistory, gasHistoryIndex |-> gasHistoryIndex]
  IN
  IF caller # owner THEN unchanged(Reverted("NotOwner"))
  ELSE IF ~oracle.ok THEN unchanged(Reverted("OracleDataMissing"))
  ELSE
    LET currentPrice == oracle.value
        prices == [lastPrices EXCEPT ![feedId] = currentPrice]
        updates == [lastUpdateTimestamp EXCEPT ![feedId] = now]
        delta == AbsDiff(currentPrice, expectedPrice)
        slippage == CheckedDiv(delta * BasisPoints, expectedPrice)
    IN
    IF ~slippage.ok THEN unchanged(Reverted("DivisionByZero"))
    ELSE
      LET gas == _updateGasHistory(gasHistory, gasHistoryIndex, txGasPrice)
          r == Verdict(slippage.val, txGasPrice,
                       _getAverageGasPrice(gasHistory),
                       _detectArbitragePattern(prices, updates, feedId,
                                               currentPrice))
      IN IF r.status = "revert" THEN unchanged(r)
         ELSE [ret |-> r, lastPrices |-> prices,
               lastUpdateTimestamp |-> updates,
               gasHistory |-> gas.gasHistory,
               gasHistoryIndex |-> gas.gasHistoryIndex]

\* The body of detectMEV: the return value (or revert) and the writes it
\* leaves behind when it does not revert.
detectMEV(caller, feedId, expectedPrice, oracle, txGasPrice) ==
  LET unchanged(r) ==
        [ret |-> r, lastPrices |-> lastPrices,
         lastUpdateTimestamp |-> lastUpdateTimestamp,
         gasHistory |-> gasHistory, gasHistoryIndex |-> gasHistoryIndex]
  IN
  IF caller # owner THEN unchanged(Reverted("NotOwner"))
  ELSE IF ~oracle.ok THEN unchanged(Reverted("OracleDataMissing"))
  ELSE
    LET currentPrice == oracle.value
        prices == [lastPrices EXCEPT ![feedId] = currentPrice]
        updates == [lastUpdateTimestamp EXCEPT ![feedId] = now]
        delta == AbsDiff(currentPrice, expectedPrice)
        slippage == CheckedDiv(delta * BasisPoints, expectedPrice)
    IN
    IF ~slippage.ok THEN unchanged(Reverted("DivisionByZero"))
    ELSE
      LET gas == _updateGasHistory(gasHistory, gasHistoryIndex, txGasPrice)
          r == Verdict(slippage.val, txGasPrice,
                       _getAverageGasPrice(gas.gasHistory),
                       _detectArbitragePattern(prices, updates, feedId,
                                               currentPrice))
      IN IF r.status = "revert" THEN unchanged(r)
         ELSE [ret |-> r, lastPrices |-> prices,
               lastUpdateTimestamp |-> updates,
               gasHistory |-> gas.gasHistory,
               gasHistoryIndex |-> gas.gasHistoryIndex]

\* ------------------------------------------------------------------------
\* Initial state: the constructor
\* ------------------------------------------------------------------------
NoCall ==
  [op |-> "none", caller |-> "owner", feedId |-> "ETH", expectedPrice |-> 0,
   oracle |-> [ok |-> FALSE, value |-> 0], txGasPrice |-> 0,
   at |-> 0, prevPrice |-> 0, prevUpdate |-> 0, firstObservation |-> FALSE,
   riskThreshold |-> 0, minPriceDelta |-> 0, frontRunGasMultiplier |-> 0]

NoProtectorCall == [op |-> "none", sender |-> "owner", args |-> <<>>]

\* MEVProtectorAdvanced after its constructor; each user holds
\* InitialTokenBalance of tokenIn and has approved nothing.
ProtectorInit ==
  /\ userConfigs = [u \in Users |-> NoConfig]
  /\ userStats = [u \in Users |-> NoStats]
  /\ globalStats = NoStats
  /\ whitelistedTokens = {}
  /\ priceDelays = [f \in FeedIds |-> 0]
  /\ protectionFee = InitialProtectionFee
  /\ tokenBalance = [h \in Users \cup {"protector"} |->
                       IF h \in Users THEN InitialTokenBalance ELSE 0]
  /\ allowance = [u \in Users |-> 0]
  /\ ethBalance = [h \in {"protector"} \cup TreasuryAddresses |-> 0]
  /\ treasury = "treasury"
  /\ detector = "detector"
  /\ pcall = NoProtectorCall
  /\ pret = [status |-> "revert", error |-> ""]
  /\ swaps = 0

NoMevProtectorCall == [op |-> "none", sender |-> "owner", args |-> <<>>]

\* MEVProtector and AegilonToken after their constructors
MevProtectorInit ==
  /\ authorizedIndexer = ZeroAddress
  /\ priceDeviationThreshold = InitialPriceDeviationThreshold
  /\ lastOraclePrices = [sym \in Symbols |-> 0]
  /\ lastOracleUpdate = [sym \in Symbols |-> 0]
  /\ detectedThreats = {}
  /\ threats = <<>>
  /\ isProtected = [u \in Users |-> FALSE]
  /\ protectionLevel = [u \in Users |-> 0]
  /\ successfulPrevented = [u \in Users |-> 0]
  /\ mevProtectorContract = ZeroAddress
  /\ rewardsMinted = [u \in Users |-> 0]
  /\ mcall = NoMevProtectorCall
  /\ mret = [status |-> "revert", error |-> ""]

NoAnalysis == [op |-> "none"]

\* the subgraph before any event is indexed
AnalyticsInit ==
  /\ recentTransactions = <<>>
  /\ transactions = <<>>
  /\ alerts = <<>>
  /\ acall = NoAnalysis

\* AegilonToken after its constructor, which mints the whole supply to the
\* treasury, the liquidity address and the deployer
TokenInit ==
  /\ totalSupply = TOTAL_SUPPLY
  /\ balanceOf = [h \in Holders |->
                    IF h = "treasury" THEN GOVERNANCE_TREASURY
                    ELSE IF h = "liquidity" THEN LIQUIDITY_REWARDS
                    ELSE IF h = TokenOwner
                    THEN TEAM_ALLOCATION + COMMUNITY_AIRDROP
                    ELSE 0]
  /\ stakedBalance = [h \in Holders |-> 0]
  /\ stakingRewards = [h \in Holders |-> 0]
  /\ lastStakeTime = [h \in Holders |-> 0]
  /\ threatReports = [h \in Holders |-> 0]
  /\ paused = FALSE

\* the monitor after its constructor, polling a subgraph that has indexed
\* nothing yet
MonitorInit ==
  /\ isRunning = FALSE
  /\ lastBlockProcessed = 0
  /\ alertCount = 0
  /\ mevAlerts = <<>>
  /\ metaBlock = 0
  /\ processedAlerts = <<>>
  /\ startBlock = 0

Init ==
  /\ MonitorInit
  /\ ProtectorInit
  /\ MevProtectorInit
  /\ AnalyticsInit
  /\ TokenInit
  /\ owner = "owner"
  /\ riskThreshold = InitialRiskThreshold
  /\ minPriceDelta = InitialMinPriceDelta
  /\ frontRunGasMultiplier = InitialFrontRunGasMultiplier
  /\ lastPrices = [f \in FeedIds |-> 0]
  /\ lastUpdateTimestamp = [f \in FeedIds |-> 0]
  /\ gasHistory = [i \in Slots |-> 0]
  /\ gasHistoryIndex = 0
  /\ now = 1
  /\ call = NoCall
  /\ ret = Reverted("")
  /\ samples = <<>>
  /\ observed = {}
  /\ calls = 0

\* ------------------------------------------------------------------------
\* Operations
\* ------------------------------------------------------------------------
DetectMEV(caller, feedId, expectedPrice, oracle, txGasPrice) ==
  \E res \in {detectMEV(caller, feedId, expectedPrice, oracle, txGasPrice)} :
  LET ok == res.ret.status = "ok" IN
  /\ lastPrices' = res.lastPrices
  /\ lastUpdateTimestamp' = res.lastUpdateTimestamp
  /\ gasHistory' = res.gasHistory
  /\ gasHistoryIndex' = res.gasHistoryIndex
  /\ ret' = res.ret
  /\ call' = [op |-> "detectMEV", caller |-> caller, feedId |-> feedId,
              expectedPrice |-> expectedPrice, oracle |-> oracle,
              txGasPrice |-> txGasPrice, at |-> now,
              prevPrice |-> lastPrices[feedId],
              prevUpdate |-> lastUpdateTimestamp[feedId],
              firstObservation |-> feedId \notin observed,
              riskThreshold |-> riskThreshold,
              minPriceDelta |-> minPriceDelta,
              frontRunGasMultiplier |-> frontRunGasMultiplier]
  /\ samples' = IF ok THEN Append(samples, txGasPrice) ELSE samples
  /\ observed' = IF ok THEN observed \cup {feedId} ELSE observed
  /\ calls' = calls + 1
  /\ UNCHANGED <<owner, riskThreshold, minPriceDelta, frontRunGasMultiplier,
                 now>>
  /\ UNCHANGED protectorVars
  /\ UNCHANGED otherComponents

setRiskThreshold(caller, newThreshold) ==
  /\ riskThreshold' = IF caller = owner THEN newThreshold ELSE riskThreshold
  /\ UNCHANGED <<owner, minPriceDelta, frontRunGasMultiplier, lastPrices,
                 lastUpdateTimestamp, gasHistory, gasHistoryIndex, now,
                 call, ret, samples, observed, calls>>
  /\ UNCHANGED protectorVars
  /\ UNCHANGED otherComponents

setMinPriceDelta(caller, newDelta) ==
  /\ minPriceDelta' = IF caller = owner THEN newDelta ELSE minPriceDelta
  /\ UNCHANGED <<owner, riskThreshold, frontRunGasMultiplier, lastPrices,
                 lastUpdateTimestamp, gasHistory, gasHistoryIndex, now,
                 call, ret, samples, observed, calls>>
  /\ UNCHANGED protectorVars
  /\ UNCHANGED otherComponents

setFrontRunGasMultiplier(caller, newMultiplier) ==
  /\ frontRunGasMultiplier' =
       IF caller = owner THEN newMultiplier ELSE frontRunGasMultiplier
  /\ UNCHANGED <<owner, riskThreshold, minPriceDelta, lastPrices,
                 lastUpdateTimestamp, gasHistory, gasHistoryIndex, now,
                 call, ret, samples, observed, calls>>
  /\ UNCHANGED protectorVars
  /\ UNCHANGED otherComponents

\* The chain produces later blocks: block.timestamp grows.
Tick ==
  /\ \E d \in TickSteps : now + d <= MaxTime /\ now' = now + d
  /\ UNCHANGED <<owner, riskThreshold, minPriceDelta, frontRunGasMultiplier,
                 lastPrices, lastUpdateTimestamp, gasHistory, gasHistoryIndex,
                 call, ret, samples, observed, calls>>
  /\ UNCHANGED protectorVars
  /\ UNCHANGED otherComponents

Next ==
  \/ /\ calls < MaxCalls
     /\ \E caller \in Addresses, feedId \in FeedIds,
           expectedPrice \in ExpectedPrices, oracle \in OracleReadings,
           txGasPrice \in GasPrices :
          DetectMEV(caller, feedId, expectedPrice, oracle, txGasPrice)
  \/ \E caller \in Addresses, v \in RiskThresholdValues :
       setRiskThreshold(caller, v)
  \/ \E caller \in Addresses, v \in MinPriceDeltaValues :
       setMinPriceDelta(caller, v)
  \/ \E caller \in Addresses, v \in FrontRunGasMultiplierValues :
       setFrontRunGasMultiplier(caller, v)
  \/ Tick

Spec == Init /\ [][Next]_vars

\* Sequences of owner calls with well-formed inputs (data present, positive
\* prices), reconfiguration and time passing in between.
NextSeq ==
  \/ /\ calls < MaxSeqCalls
     /\ \E feedId \in FeedIds, value \in SeqOracleValues,
           txGasPrice \in GasPrices :
          DetectMEV("owner", feedId, 2000, [ok |-> TRUE, value |-> value],
                    txGasPrice)
  \/ \E caller \in Addresses, v \in RiskThresholdValues :
       setRiskThreshold(caller, v)
  \/ \E caller \in Addresses, v \in MinPriceDeltaValues :
       setMinPriceDelta(caller, v)
  \/ \E caller \in Addresses, v \in FrontRunGasMultiplierValues :
       setFrontRunGasMultiplier(caller, v)
  \/ Tick

SpecSeq == Init /\ [][NextSeq]_vars

\* The gas ring under a long run of successful owner calls on one feed with
\* positive gas prices: all samples are BaseGas but at most MaxSpikes.
Spikes == Cardinality({i \in 1 .. Len(samples) : samples[i] # BaseGas})

NextGas ==
  /\ Len(samples) < MaxGasRecords
  /\ \E txGasPrice \in {BaseGas, SpikeGas} :
       /\ txGasPrice # BaseGas => Spikes < MaxSpikes
       /\ DetectMEV("owner", "ETH", 2000, [ok |-> TRUE, value |-> 2100],
                    txGasPrice)

SpecGas == Init /\ [][NextGas]_vars

BaselineGasPrices == {20, 24, 25, 30}

\* The front-run baseline: a few owner calls on one feed with gas prices
\* around 120% of one another, with and without slippage, under both
\* multipliers.
NextBaseline ==
  \/ /\ calls < MaxBaselineCalls
     /\ \E value \in {2000, 2200}, txGasPrice \in BaselineGasPrices :
          DetectMEV("owner", "ETH", 2000, [ok |-> TRUE, value |-> value],
                    txGasPrice)
  \/ \E v \in FrontRunGasMultiplierValues :
       setFrontRunGasMultiplier("owner", v)

SpecBaseline == Init /\ [][NextBaseline]_vars

\* ------------------------------------------------------------------------
\* MEVProtectorAdvanced: configuration
\* ------------------------------------------------------------------------
CfgStrategies == {"REVERT", "DELAY"}
MaxSlippageValues == {500, 1000, 1001}
GasLimitValues == {99999, 100000, 200000}

\* outcomes of a call to the protector
Done == [status |-> "ok", error |-> ""]
Failed(error) == [status |-> "revert", error |-> error]

\* variant: the slippage cap is not enforced
configureProtectionSlippageUncapped(sender, strategy, maxSlippage, gasLimit, whitelistMode) ==
  IF gasLimit < MinGasLimit
  THEN [ret |-> Failed("Gas limit too low"), userConfigs |-> userConfigs]
  ELSE [ret |-> Done,
        userConfigs |->
          [userConfigs EXCEPT ![sender] =
             [isActive |-> TRUE, strategy |-> strategy,
              maxSlippage |-> maxSlippage, gasLimit |-> gasLimit,
              whitelistMode |-> whitelistMode]]]

\* variant: reconfiguration merges, an already stored whitelistMode is kept
configureProtectionMerged(sender, strategy, maxSlippage, gasLimit, whitelistMode) ==
  IF maxSlippage > MaxSlippageCap
  THEN [ret |-> Failed("Slippage too high"), userConfigs |-> userConfigs]
  ELSE IF gasLimit < MinGasLimit
  THEN [ret |-> Failed("Gas limit too low"), userConfigs |-> userConfigs]
  ELSE [ret |-> Done,
        userConfigs |->
          [userConfigs EXCEPT ![sender] =
             [isActive |-> TRUE, strategy |-> strategy,
              maxSlippage |-> maxSlippage, gasLimit |-> gasLimit,
              whitelistMode |->
                IF userConfigs[sender].isActive
                THEN userConfigs[sender].whitelistMode
                ELSE whitelistMode]]]

configureProtection(sender, strategy, maxSlippage, gasLimit, whitelistMode) ==
  IF maxSlippage > MaxSlippageCap
  THEN [ret |-> Failed("Slippage too high"), userConfigs |-> userConfigs]
  ELSE IF gasLimit < MinGasLimit
  THEN [ret |-> Failed("Gas limit too low"), userConfigs |-> userConfigs]
  ELSE [ret |-> Done,
        userConfigs |->
          [userConfigs EXCEPT ![sender] =
             [isActive |-> TRUE, strategy |-> strategy,
              maxSlippage |-> maxSlippage, gasLimit |-> gasLimit,
              whitelistMode |-> whitelistMode]]]

ConfigureProtection(sender, strategy, maxSlippage, gasLimit, whitelistMode) ==
  \E res \in {configureProtection(sender, strategy, maxSlippage, gasLimit,
                                  whitelistMode)} :
  /\ userConfigs' = res.userConfigs
  /\ pret' = res.ret
  /\ pcall' = [op |-> "configureProtection", sender |-> sender,
               args |-> [strategy |-> strategy, maxSlippage |-> maxSlippage,
                         gasLimit |-> gasLimit,
                         whitelistMode |-> whitelistMode]]
  /\ UNCHANGED <<userStats, globalStats, whitelistedTokens, priceDelays,
                 protectionFee, tokenBalance, allowance, ethBalance,
                 treasury, detector, swaps>>
  /\ UNCHANGED <<detectorState, now, call, ret, samples, observed, calls>>
  /\ UNCHANGED otherComponents

\* Any users configuring and reconfiguring with valid and invalid inputs.
NextCfg ==
  \E sender \in Users, strategy \in CfgStrategies,
     maxSlippage \in MaxSlippageValues, gasLimit \in GasLimitValues,
     whitelistMode \in BOOLEAN :
    ConfigureProtection(sender, strategy, maxSlippage, gasLimit,
                        whitelistMode)

SpecCfg == Init /\ [][NextCfg]_vars

\* ------------------------------------------------------------------------
\* MEVProtectorAdvanced: protectSwap
\* ------------------------------------------------------------------------
\* SwapParams; the recipient field is computed and never used by the code.
SwapParams(tokenIn, tokenOut, amountIn, minAmountOut, pricefeedId, deadline) ==
  [tokenIn |-> tokenIn, tokenOut |-> tokenOut, amountIn |-> amountIn,
   minAmountOut |-> minAmountOut, pricefeedId |-> pricefeedId,
   deadline |-> deadline]

SwapReturned(success, amountOut) ==
  [status |-> "ok", error |-> "", success |-> success,
   amountOut |-> amountOut]

\* variant: the amount is not checked
SwapGuardsNoAmountCheck(sender, params) ==
  IF ~(params.deadline >= now) THEN "Swap expired"
  ELSE IF ~userConfigs[sender].isActive THEN "Protection not configured"
  ELSE IF /\ userConfigs[sender].whitelistMode
          /\ params.tokenIn \notin whitelistedTokens
  THEN "Token not whitelisted"
  ELSE IF /\ userConfigs[sender].whitelistMode
          /\ params.tokenOut \notin whitelistedTokens
  THEN "Token not whitelisted"
  ELSE ""

\* The require statements at the head of protectSwap, in order: the message
\* of the first one that fails, "" when all pass.
SwapGuards(sender, params) ==
  IF ~(params.deadline >= now) THEN "Swap expired"
  ELSE IF ~(params.amountIn > 0) THEN "Invalid amount"
  ELSE IF ~userConfigs[sender].isActive THEN "Protection not configured"
  ELSE IF /\ userConfigs[sender].whitelistMode
          /\ params.tokenIn \notin whitelistedTokens
  THEN "Token not whitelisted"
  ELSE IF /\ userConfigs[sender].whitelistMode
          /\ params.tokenOut \notin whitelistedTokens
  THEN "Token not whitelisted"
  ELSE ""

\* variant: the risk-based part of the delay is dropped
_calculateDelayBaseOnly(threatType, riskScore) ==
  IF threatType = "SANDWICH" THEN 30
  ELSE IF threatType = "FRONTRUN" THEN 15
  ELSE IF threatType = "ARBITRAGE" THEN 5
  ELSE 10

_calculateDelay(threatType, riskScore) ==
  IF threatType = "SANDWICH" THEN 30 + (riskScore \div 100)
  ELSE IF threatType = "FRONTRUN" THEN 15 + (riskScore \div 200)
  ELSE IF threatType = "ARBITRAGE" THEN 5 + (riskScore \div 500)
  ELSE 10

\* variant: ADJUST blocks like REVERT
_applyProtectionStrategyAdjustBlocks(strategy, params, threatType, riskScore) ==
  IF strategy = "REVERT" \/ strategy = "ADJUST"
  THEN [blocked |-> TRUE, priceDelays |-> priceDelays]
  ELSE IF strategy = "DELAY"
  THEN [blocked |-> TRUE,
        priceDelays |->
          [priceDelays EXCEPT ![params.pricefeedId] =
             now + _calculateDelay(threatType, riskScore)]]
  ELSE [blocked |-> FALSE, priceDelays |-> priceDelays]

\* Whether the strategy blocks the swap, and priceDelays after it ran.
_applyProtectionStrategy(strategy, params, threatType, riskScore) ==
  IF strategy = "REVERT"
  THEN [blocked |-> TRUE, priceDelays |-> priceDelays]
  ELSE IF strategy = "ADJUST"
  THEN [blocked |-> FALSE, priceDelays |-> priceDelays]
  ELSE IF strategy = "DELAY"
  THEN [blocked |-> TRUE,
        priceDelays |->
          [priceDelays EXCEPT ![params.pricefeedId] =
             now + _calculateDelay(threatType, riskScore)]]
  ELSE [blocked |-> FALSE, priceDelays |-> priceDelays]

\* variant: a swap below minAmountOut fails without the refund transfer
_executeSwapNoRefund(sender, params, config, currentPrice) ==
  IF \/ allowance[sender] < params.amountIn
     \/ tokenBalance[sender] < params.amountIn
  THEN [status |-> "revert", success |-> FALSE, amountOut |-> 0,
        maxSlippage |-> 0,
        tokenBalance |-> tokenBalance, allowance |-> allowance]
  ELSE
    LET escrowed == [tokenBalance EXCEPT
                       ![sender] = @ - params.amountIn,
                       !["protector"] = @ + params.amountIn]
        spent == [allowance EXCEPT ![sender] = @ - params.amountIn]
        amountOut == (params.amountIn * currentPrice) \div WAD
    IN
    IF amountOut < params.minAmountOut
    THEN [status |-> "ok", success |-> FALSE, amountOut |-> 0,
          maxSlippage |-> config.maxSlippage,
          tokenBalance |-> escrowed, allowance |-> spent]
    ELSE [status |-> "ok", success |-> TRUE, amountOut |-> amountOut,
          maxSlippage |-> config.maxSlippage,
          tokenBalance |-> escrowed, allowance |-> spent]

\* tokenIn is an OpenZeppelin ERC20 (the token of the test suite):
\* transferFrom reverts on insufficient allowance or balance and spends the
\* allowance.  currentPrice is the second getCurrentPrice read of the same
\* transaction payload.  maxSlippage is the tolerance the slippage check
\* applies.  No tokenOut is transferred.
_executeSwap(sender, params, config, currentPrice) ==
  IF \/ allowance[sender] < params.amountIn
     \/ tokenBalance[sender] < params.amountIn
  THEN [status |-> "revert", success |-> FALSE, amountOut |-> 0,
        maxSlippage |-> 0,
        tokenBalance |-> tokenBalance, allowance |-> allowance]
  ELSE
    LET escrowed == [tokenBalance EXCEPT
                       ![sender] = @ - params.amountIn,
                       !["protector"] = @ + params.amountIn]
        refunded == [escrowed EXCEPT
                       !["protector"] = @ - params.amountIn,
                       ![sender] = @ + params.amountIn]
        spent == [allowance EXCEPT ![sender] = @ - params.amountIn]
        amountOut == (params.amountIn * currentPrice) \div WAD
        expectedOut == (params.amountIn * currentPrice) \div WAD
        slippage == IF expectedOut > amountOut
                    THEN ((expectedOut - amountOut) * 10000) \div expectedOut
                    ELSE 0
    IN
    IF amountOut < params.minAmountOut
    THEN [status |-> "ok", success |-> FALSE, amountOut |-> 0,
          maxSlippage |-> config.maxSlippage,
          tokenBalance |-> refunded, allowance |-> spent]
    ELSE IF slippage > config.maxSlippage
    THEN [status |-> "ok", success |-> FALSE, amountOut |-> 0,
          maxSlippage |-> config.maxSlippage,
          tokenBalance |-> refunded, allowance |-> spent]
    ELSE [status |-> "ok", success |-> TRUE, amountOut |-> amountOut,
          maxSlippage |-> config.maxSlippage,
          tokenBalance |-> escrowed, allowance |-> spent]

\* variant: an unpaid fee is not counted
_collectProtectionFeeCountsPaidOnly(amountIn, value) ==
  LET feeAmount == (amountIn * protectionFee) \div 10000
  IN [feeAmount |-> IF value >= feeAmount THEN feeAmount ELSE 0,
      paid |-> IF value >= feeAmount THEN feeAmount ELSE 0]

\* The fee counted, and the native value forwarded to the treasury.
_collectProtectionFee(amountIn, value) ==
  LET feeAmount == (amountIn * protectionFee) \div 10000
  IN [feeAmount |-> feeAmount,
      paid |-> IF value >= feeAmount THEN feeAmount ELSE 0]

_estimateUSDValue(token, amount) == amount

\* variant: a blocked threat is not counted as detected
CountedBlockedNotDetected(stats, detected, blocked, valueProtected, fee) ==
  [totalProtectedSwaps |-> stats.totalProtectedSwaps + 1,
   threatsDetected |->
     stats.threatsDetected + (IF detected /\ ~blocked THEN 1 ELSE 0),
   threatsBlocked |-> stats.threatsBlocked + (IF blocked THEN 1 ELSE 0),
   totalValueProtected |-> stats.totalValueProtected + valueProtected,
   feesCollected |-> stats.feesCollected + fee]

\* The counters of one ProtectionStats struct after a protectSwap call.
Counted(stats, detected, blocked, valueProtected, fee) ==
  [totalProtectedSwaps |-> stats.totalProtectedSwaps + 1,
   threatsDetected |-> stats.threatsDetected + (IF detected THEN 1 ELSE 0),
   threatsBlocked |-> stats.threatsBlocked + (IF blocked THEN 1 ELSE 0),
   totalValueProtected |-> stats.totalValueProtected + valueProtected,
   feesCollected |-> stats.feesCollected + fee]

NoVerdict == Returned(FALSE, "UNKNOWN", 0)

\* The body of protectSwap.  price is what detector.getCurrentPrice yields
\* from the transaction payload, det what the nested call
\* detector.detectMEV(pricefeedId, expectedPrice, tx.gasprice) does when the
\* body reaches it.  The result holds the return value (or the revert), how
\* far the call got, the detector's verdict if it gave one, and every write
\* the call leaves behind; a revert anywhere, in the detector or the token
\* included, leaves none.
protectSwap(sender, params, value, price, det) ==
  LET config == userConfigs[sender]
      failure == SwapGuards(sender, params)
      reverted(stage, error, verdict) ==
        [ret |-> Failed(error), stage |-> stage, verdict |-> verdict,
         maxSlippage |-> 0,
         lastPrices |-> lastPrices,
         lastUpdateTimestamp |-> lastUpdateTimestamp,
         gasHistory |-> gasHistory, gasHistoryIndex |-> gasHistoryIndex,
         userStats |-> userStats, globalStats |-> globalStats,
         priceDelays |-> priceDelays, tokenBalance |-> tokenBalance,
         allowance |-> allowance, ethBalance |-> ethBalance]
  IN
  IF failure # "" THEN reverted("guards", failure, NoVerdict)
  ELSE IF ~price.ok THEN reverted("oracle", "OracleDataMissing", NoVerdict)
  ELSE IF det.ret.status = "revert"
  THEN reverted("detector", det.ret.error, NoVerdict)
  ELSE
    LET isThreat == det.ret.isThreat
        strat == IF isThreat
                 THEN _applyProtectionStrategy(config.strategy, params,
                                               det.ret.threatType,
                                               det.ret.riskScore)
                 ELSE [blocked |-> FALSE, priceDelays |-> priceDelays]
        committed(outcome, stage, tolerance, valueProtected, feeAmount,
                  paid, balances, allowances) ==
          [ret |-> outcome, stage |-> stage, verdict |-> det.ret,
           maxSlippage |-> tolerance,
           lastPrices |-> det.lastPrices,
           lastUpdateTimestamp |-> det.lastUpdateTimestamp,
           gasHistory |-> det.gasHistory,
           gasHistoryIndex |-> det.gasHistoryIndex,
           userStats |->
             [userStats EXCEPT ![sender] =
                Counted(@, isThreat, strat.blocked, valueProtected,
                        feeAmount)],
           globalStats |->
             Counted(globalStats, isThreat, strat.blocked, valueProtected,
                     feeAmount),
           priceDelays |-> strat.priceDelays,
           tokenBalance |-> balances, allowance |-> allowances,
           ethBalance |->
             [ethBalance EXCEPT !["protector"] = @ + value - paid,
                                ![treasury] = @ + paid]]
    IN
    IF strat.blocked
    THEN committed(SwapReturned(FALSE, 0), "blocked", 0, 0, 0, 0,
                   tokenBalance, allowance)
    ELSE
      LET swap == _executeSwap(sender, params, config, price.value)
          fee == _collectProtectionFee(params.amountIn, value)
      IN
      IF swap.status = "revert"
      THEN reverted("token", "ERC20InsufficientFunds", det.ret)
      ELSE IF swap.success
      THEN committed(SwapReturned(TRUE, swap.amountOut), "executed",
                     swap.maxSlippage,
                     _estimateUSDValue(params.tokenIn, params.amountIn),
                     fee.feeAmount, fee.paid,
                     swap.tokenBalance, swap.allowance)
      ELSE committed(SwapReturned(FALSE, 0), "refunded",
                     swap.maxSlippage, 0, 0, 0,
                     swap.tokenBalance, swap.allowance)

ProtectSwap(sender, params, value, txGasPrice, price, detectorOracle) ==
  \E det \in {detectMEV("protector", params.pricefeedId, price.value,
                        detectorOracle, txGasPrice)} :
  \E res \in {protectSwap(sender, params, value, price, det)} :
  LET ok == res.ret.status = "ok" IN
  /\ lastPrices' = res.lastPrices
  /\ lastUpdateTimestamp' = res.lastUpdateTimestamp
  /\ gasHistory' = res.gasHistory
  /\ gasHistoryIndex' = res.gasHistoryIndex
  /\ userStats' = res.userStats
  /\ globalStats' = res.globalStats
  /\ priceDelays' = res.priceDelays
  /\ tokenBalance' = res.tokenBalance
  /\ allowance' = res.allowance
  /\ ethBalance' = res.ethBalance
  /\ pret' = res.ret
  /\ pcall' = [op |-> "protectSwap", sender |-> sender,
               args |-> [params |-> params, value |-> value,
                         txGasPrice |-> txGasPrice, price |-> price,
                         detectorOracle |-> detectorOracle, at |-> now,
                         config |-> userConfigs[sender],
                         whitelisted |-> whitelistedTokens,
                         delayBefore |-> priceDelays[params.pricefeedId],
                         stage |-> res.stage, verdict |-> res.verdict,
                         maxSlippage |-> res.maxSlippage]]
  /\ samples' = IF ok THEN Append(samples, txGasPrice) ELSE samples
  /\ observed' = IF ok THEN observed \cup {params.pricefeedId} ELSE observed
  /\ swaps' = swaps + 1
  /\ UNCHANGED <<owner, riskThreshold, minPriceDelta, frontRunGasMultiplier,
                 now, call, ret, calls>>
  /\ UNCHANGED <<userConfigs, whitelistedTokens, protectionFee, treasury,
                 detector>>
  /\ UNCHANGED otherComponents

\* Ownable.transferOwnership of the detector
transferOwnership(caller, newOwner) ==
  /\ owner' = IF caller = owner THEN newOwner ELSE owner
  /\ UNCHANGED <<riskThreshold, minPriceDelta, frontRunGasMultiplier,
                 lastPrices, lastUpdateTimestamp, gasHistory, gasHistoryIndex,
                 now, call, ret, samples, observed, calls>>
  /\ UNCHANGED protectorVars
  /\ UNCHANGED otherComponents

\* the deployer of the protector, its Ownable.owner
ProtectorOwner == "owner"

addWhitelistedToken(caller, token) ==
  /\ whitelistedTokens' = IF caller = ProtectorOwner
                          THEN whitelistedTokens \cup {token}
                          ELSE whitelistedTokens
  /\ UNCHANGED <<userConfigs, userStats, globalStats, priceDelays,
                 protectionFee, tokenBalance, allowance, ethBalance,
                 treasury, detector,
                 pcall, pret, swaps>>
  /\ UNCHANGED <<detectorState, now, call, ret, samples, observed, calls>>
  /\ UNCHANGED otherComponents

\* ERC20.approve(protector, amount) on tokenIn by a user
approve(user, amount) ==
  /\ allowance' = [allowance EXCEPT ![user] = amount]
  /\ UNCHANGED <<userConfigs, userStats, globalStats, whitelistedTokens,
                 priceDelays, protectionFee, tokenBalance, ethBalance,
                 treasury, detector,
                 pcall, pret, swaps>>
  /\ UNCHANGED <<detectorState, now, call, ret, samples, observed, calls>>
  /\ UNCHANGED otherComponents

\* ------------------------------------------------------------------------
\* MEVProtectorAdvanced: owner-only administration
\* ------------------------------------------------------------------------
NotOwnerError == "Ownable: caller is not the owner"

\* variant: the fee is not capped
setProtectionFeeUncapped(caller, newFee) ==
  LET outcome == IF caller # ProtectorOwner THEN Failed(NotOwnerError)
                 ELSE Done
  IN
  /\ protectionFee' = IF outcome.status = "ok" THEN newFee ELSE protectionFee
  /\ pret' = outcome
  /\ pcall' = [op |-> "setProtectionFee", sender |-> caller,
               args |-> [newFee |-> newFee]]
  /\ UNCHANGED <<userConfigs, userStats, globalStats, whitelistedTokens,
                 priceDelays, tokenBalance, allowance, ethBalance, treasury,
                 detector, swaps>>
  /\ UNCHANGED <<detectorState, now, call, ret, samples, observed, calls>>
  /\ UNCHANGED otherComponents

setProtectionFee(caller, newFee) ==
  LET outcome == IF caller # ProtectorOwner THEN Failed(NotOwnerError)
                 ELSE IF ~(newFee <= maxProtectionFee)
                 THEN Failed("Fee too high")
                 ELSE Done
  IN
  /\ protectionFee' = IF outcome.status = "ok" THEN newFee ELSE protectionFee
  /\ pret' = outcome
  /\ pcall' = [op |-> "setProtectionFee", sender |-> caller,
               args |-> [newFee |-> newFee]]
  /\ UNCHANGED <<userConfigs, userStats, globalStats, whitelistedTokens,
                 priceDelays, tokenBalance, allowance, ethBalance, treasury,
                 detector, swaps>>
  /\ UNCHANGED <<detectorState, now, call, ret, samples, observed, calls>>
  /\ UNCHANGED otherComponents

\* variant: the stop deletes the user's config
emergencyStopDeletesConfig(caller, user) ==
  LET outcome == IF caller # ProtectorOwner THEN Failed(NotOwnerError)
                 ELSE Done
  IN
  /\ userConfigs' = IF outcome.status = "ok"
                    THEN [userConfigs EXCEPT ![user] = NoConfig]
                    ELSE userConfigs
  /\ pret' = outcome
  /\ pcall' = [op |-> "emergencyStop", sender |-> caller,
               args |-> [user |-> user]]
  /\ UNCHANGED <<userStats, globalStats, whitelistedTokens, priceDelays,
                 protectionFee, tokenBalance, allowance, ethBalance,
                 treasury, detector, swaps>>
  /\ UNCHANGED <<detectorState, now, call, ret, samples, observed, calls>>
  /\ UNCHANGED otherComponents

emergencyStop(caller, user) ==
  LET outcome == IF caller # ProtectorOwner THEN Failed(NotOwnerError)
                 ELSE Done
  IN
  /\ userConfigs' = IF outcome.status = "ok"
                    THEN [userConfigs EXCEPT ![user].isActive = FALSE]
                    ELSE userConfigs
  /\ pret' = outcome
  /\ pcall' = [op |-> "emergencyStop", sender |-> caller,
               args |-> [user |-> user]]
  /\ UNCHANGED <<userStats, globalStats, whitelistedTokens, priceDelays,
                 protectionFee, tokenBalance, allowance, ethBalance,
                 treasury, detector, swaps>>
  /\ UNCHANGED <<detectorState, now, call, ret, samples, observed, calls>>
  /\ UNCHANGED otherComponents

removeWhitelistedToken(caller, token) ==
  LET outcome == IF caller # ProtectorOwner THEN Failed(NotOwnerError)
                 ELSE Done
  IN
  /\ whitelistedTokens' = IF outcome.status = "ok"
                          THEN whitelistedTokens \ {token}
                          ELSE whitelistedTokens
  /\ pret' = outcome
  /\ pcall' = [op |-> "removeWhitelistedToken", sender |-> caller,
               args |-> [token |-> token]]
  /\ UNCHANGED <<userConfigs, userStats, globalStats, priceDelays,
                 protectionFee, tokenBalance, allowance, ethBalance,
                 treasury, detector, swaps>>
  /\ UNCHANGED <<detectorState, now, call, ret, samples, observed, calls>>
  /\ UNCHANGED otherComponents

setTreasury(caller, newTreasury) ==
  LET outcome == IF caller # ProtectorOwner THEN Failed(NotOwnerError)
                 ELSE IF newTreasury = ZeroAddress
                 THEN Failed("Invalid treasury")
                 ELSE Done
  IN
  /\ treasury' = IF outcome.status = "ok" THEN newTreasury ELSE treasury
  /\ pret' = outcome
  /\ pcall' = [op |-> "setTreasury", sender |-> caller,
               args |-> [newTreasury |-> newTreasury]]
  /\ UNCHANGED <<userConfigs, userStats, globalStats, whitelistedTokens,
                 priceDelays, protectionFee, tokenBalance, allowance,
                 ethBalance, detector, swaps>>
  /\ UNCHANGED <<detectorState, now, call, ret, samples, observed, calls>>
  /\ UNCHANGED otherComponents

\* updateDetector without the onlyOwner modifier
updateDetectorAnyCaller(caller, newDetector) ==
  LET outcome == IF newDetector = ZeroAddress
                 THEN Failed("Invalid detector")
                 ELSE Done
  IN
  /\ detector' = IF outcome.status = "ok" THEN newDetector ELSE detector
  /\ pret' = outcome
  /\ pcall' = [op |-> "updateDetector", sender |-> caller,
               args |-> [newDetector |-> newDetector]]
  /\ UNCHANGED <<userConfigs, userStats, globalStats, whitelistedTokens,
                 priceDelays, protectionFee, tokenBalance, allowance,
                 ethBalance, treasury, swaps>>
  /\ UNCHANGED <<detectorState, now, call, ret, samples, observed, calls>>
  /\ UNCHANGED otherComponents

updateDetector(caller, newDetector) ==
  LET outcome == IF caller # ProtectorOwner THEN Failed(NotOwnerError)
                 ELSE IF newDetector = ZeroAddress
                 THEN Failed("Invalid detector")
                 ELSE Done
  IN
  /\ detector' = IF outcome.status = "ok" THEN newDetector ELSE detector
  /\ pret' = outcome
  /\ pcall' = [op |-> "updateDetector", sender |-> caller,
               args |-> [newDetector |-> newDetector]]
  /\ UNCHANGED <<userConfigs, userStats, globalStats, whitelistedTokens,
                 priceDelays, protectionFee, tokenBalance, allowance,
                 ethBalance, treasury, swaps>>
  /\ UNCHANGED <<detectorState, now, call, ret, samples, observed, calls>>
  /\ UNCHANGED otherComponents

SwapDeadlines == {10, 100}
SwapAmounts == {0, 100}
MinAmountsOut == {0, 300}
MsgValues == {0, 1}
\* what detector.getCurrentPrice yields: no data, a zero value, a price
PriceReadings ==
  {[ok |-> FALSE, value |-> 0], [ok |-> TRUE, value |-> 0],
   [ok |-> TRUE, value |-> 2000]}
\* what the oracle read inside detector.detectMEV yields
DetectorReadings ==
  {[ok |-> TRUE, value |-> 2000], [ok |-> TRUE, value |-> 2200]}

\* One user: setup (configuration, whitelist, allowance, handing the
\* detector to the protector), time passing and protectSwap calls with valid
\* and invalid inputs.
NextProt ==
  /\ swaps < MaxSwaps
  /\ \/ \E strategy \in Strategies, whitelistMode \in BOOLEAN :
          ConfigureProtection("user1", strategy, 500, 200000, whitelistMode)
     \/ \E caller \in Addresses, token \in Tokens :
          addWhitelistedToken(caller, token)
     \/ approve("user1", 100)
     \/ \E caller \in Addresses : transferOwnership(caller, "protector")
     \/ Tick
     \/ \E deadline \in SwapDeadlines, amountIn \in SwapAmounts,
           minAmountOut \in MinAmountsOut, value \in MsgValues,
           price \in PriceReadings, detectorOracle \in DetectorReadings :
          ProtectSwap("user1",
                      SwapParams("TKA", "TKB", amountIn, minAmountOut, "ETH",
                                 deadline),
                      value, BaseGas, price, detectorOracle)

SpecProt == Init /\ [][NextProt]_vars

\* One user with a valid setup making consecutive protectSwap calls on one
\* feed; the gas price and the detector's oracle reading vary.
NextDelay ==
  /\ swaps < MaxDelaySwaps
  /\ \/ \E strategy \in {"DELAY", "PRIVATE_RELAY"} :
          ConfigureProtection("user1", strategy, 500, 200000, FALSE)
     \/ approve("user1", 100)
     \/ transferOwnership("owner", "protector")
     \/ Tick
     \/ \E txGasPrice \in GasPrices, detectorOracle \in DetectorReadings :
          ProtectSwap("user1", SwapParams("TKA", "TKB", 100, 0, "ETH", 100),
                      1, txGasPrice, [ok |-> TRUE, value |-> 2000],
                      detectorOracle)

SpecDelay == Init /\ [][NextDelay]_vars

ProtectionFees == {0, 500, 501}

\* Two users configuring and swapping while the owner (and others) call
\* emergencyStop and setProtectionFee.
NextAdmin ==
  \/ \E sender \in Users, strategy \in {"REVERT", "PRIVATE_RELAY"} :
       ConfigureProtection(sender, strategy, 500, 200000, FALSE)
  \/ \E caller \in Addresses, user \in Users : emergencyStop(caller, user)
  \/ \E caller \in Addresses, newFee \in ProtectionFees :
       setProtectionFee(caller, newFee)
  \/ \E user \in Users : approve(user, 100)
  \/ transferOwnership("owner", "protector")
  \/ /\ swaps < MaxAdminSwaps
     /\ \E sender \in Users, deadline \in {0, 100}, amountIn \in SwapAmounts :
          ProtectSwap(sender,
                      SwapParams("TKA", "TKB", amountIn, 0, "ETH", deadline),
                      1, BaseGas, [ok |-> TRUE, value |-> 2000],
                      [ok |-> TRUE, value |-> 2000])

SpecAdmin == Init /\ [][NextAdmin]_vars

\* Two users with every blocking and non-blocking strategy swapping with and
\* without a threat, with the fee paid and unpaid, before and after the
\* detector is handed to the protector.
NextStats ==
  \/ \E sender \in Users, strategy \in {"REVERT", "DELAY", "PRIVATE_RELAY"} :
       ConfigureProtection(sender, strategy, 500, 200000, FALSE)
  \/ \E user \in Users : approve(user, 100)
  \/ transferOwnership("owner", "protector")
  \/ setTreasury("owner", "treasury2")
  \/ /\ swaps < MaxStatsSwaps
     /\ \E sender \in Users, value \in MsgValues,
           detectorOracle \in DetectorReadings :
          ProtectSwap(sender, SwapParams("TKA", "TKB", 100, 0, "ETH", 100),
                      value, BaseGas, [ok |-> TRUE, value |-> 2000],
                      detectorOracle)

SpecStats == Init /\ [][NextStats]_vars

\* ------------------------------------------------------------------------
\* MEVProtector: the operations
\* ------------------------------------------------------------------------
IndexerError == "Only authorized indexer"

SandwichAttack == 0
Frontrunning == 1
JITLiquidity == 3
LastThreatType == 5    \* ThreatType.LiquidationMEV

\* Ownable.onlyOwner: a non-owner's call reverts and writes nothing.
setAuthorizedIndexer(caller, _indexer) ==
  LET outcome == IF caller # MevProtectorOwner THEN Failed(NotOwnerError)
                 ELSE Done
  IN /\ authorizedIndexer' = IF outcome.status = "ok" THEN _indexer
                             ELSE authorizedIndexer
     /\ mcall' = [op |-> "setAuthorizedIndexer", sender |-> caller,
                  args |-> [indexer |-> _indexer], at |-> now]
     /\ mret' = outcome
     /\ UNCHANGED <<priceDeviationThreshold, lastOraclePrices,
                    lastOracleUpdate, detectedThreats, threats, isProtected,
                    protectionLevel, successfulPrevented,
                    mevProtectorContract, rewardsMinted>>
     /\ UNCHANGED <<detectorState, now, call, ret, samples, observed, calls>>
     /\ UNCHANGED protectorVars
     /\ UNCHANGED analyticsVars
     /\ UNCHANGED monitorVars
     /\ UNCHANGED tokenVars

setPriceDeviationThreshold(caller, _threshold) ==
  LET outcome ==
        IF caller # MevProtectorOwner THEN Failed(NotOwnerError)
        ELSE IF _threshold > MaxPriceDeviationThreshold
        THEN Failed("Threshold cannot exceed 10%")
        ELSE Done
  IN /\ priceDeviationThreshold' = IF outcome.status = "ok" THEN _threshold
                                   ELSE priceDeviationThreshold
     /\ mcall' = [op |-> "setPriceDeviationThreshold", sender |-> caller,
                  args |-> [threshold |-> _threshold], at |-> now]
     /\ mret' = outcome
     /\ UNCHANGED <<authorizedIndexer, lastOraclePrices,
                    lastOracleUpdate, detectedThreats, threats, isProtected,
                    protectionLevel, successfulPrevented,
                    mevProtectorContract, rewardsMinted>>
     /\ UNCHANGED <<detectorState, now, call, ret, samples, observed, calls>>
     /\ UNCHANGED protectorVars
     /\ UNCHANGED analyticsVars
     /\ UNCHANGED monitorVars
     /\ UNCHANGED tokenVars

\* onlyIndexer; the price and the block's timestamp are stored as given.
updateOraclePrice(caller, symbol, price) ==
  LET outcome == IF caller # authorizedIndexer THEN Failed(IndexerError)
                 ELSE Done
  IN /\ lastOraclePrices' = IF outcome.status = "ok"
                            THEN [lastOraclePrices EXCEPT ![symbol] = price]
                            ELSE lastOraclePrices
     /\ lastOracleUpdate' = IF outcome.status = "ok"
                            THEN [lastOracleUpdate EXCEPT ![symbol] = now]
                            ELSE lastOracleUpdate
     /\ mcall' = [op |-> "updateOraclePrice", sender |-> caller,
                  args |-> [symbol |-> symbol, price |-> price], at |-> now]
     /\ mret' = outcome
     /\ UNCHANGED <<authorizedIndexer, priceDeviationThreshold,
                    detectedThreats, threats, isProtected,
                    protectionLevel, successfulPrevented,
                    mevProtectorContract, rewardsMinted>>
     /\ UNCHANGED <<detectorState, now, call, ret, samples, observed, calls>>
     /\ UNCHANGED protectorVars
     /\ UNCHANGED analyticsVars
     /\ UNCHANGED monitorVars
     /\ UNCHANGED tokenVars

AnomalyReturned(isAnomaly) == [status |-> "ok", value |-> isAnomaly]

\* checkPriceAnomaly without its freshness requirement
checkPriceAnomalyAnyAge(symbol, currentPrice) ==
  LET oraclePrice == lastOraclePrices[symbol]
      deviation ==
        IF currentPrice > oraclePrice
        THEN ((currentPrice - oraclePrice) * 10000) \div oraclePrice
        ELSE ((oraclePrice - currentPrice) * 10000) \div oraclePrice
  IN IF ~(oraclePrice > 0) THEN Failed("No oracle price available")
     ELSE AnomalyReturned(deviation > priceDeviationThreshold)

\* The view's result at the current block for the stored price of symbol.
checkPriceAnomaly(symbol, currentPrice) ==
  LET oraclePrice == lastOraclePrices[symbol]
      deviation ==
        IF currentPrice > oraclePrice
        THEN ((currentPrice - oraclePrice) * 10000) \div oraclePrice
        ELSE ((oraclePrice - currentPrice) * 10000) \div oraclePrice
  IN IF ~(oraclePrice > 0) THEN Failed("No oracle price available")
     ELSE IF ~(now - lastOracleUpdate[symbol] < OracleFreshnessWindow)
     THEN Failed("Oracle price too old")
     ELSE AnomalyReturned(deviation > priceDeviationThreshold)

\* Anyone calls the view; nothing of the contract changes.
CheckPriceAnomaly(caller, symbol, currentPrice) ==
  /\ mcall' = [op |-> "checkPriceAnomaly", sender |-> caller,
               args |-> [symbol |-> symbol, currentPrice |-> currentPrice],
               at |-> now]
  /\ mret' = checkPriceAnomaly(symbol, currentPrice)
  /\ UNCHANGED mevProtectorState
  /\ UNCHANGED <<detectorState, now, call, ret, samples, observed, calls>>
  /\ UNCHANGED protectorVars
  /\ UNCHANGED analyticsVars
  /\ UNCHANGED monitorVars
  /\ UNCHANGED tokenVars

analyzeThreatSeverity(threatType) ==
  IF threatType = SandwichAttack THEN SandwichLoss
  ELSE IF threatType = Frontrunning THEN FrontrunLoss
  ELSE OtherLoss

\* executeProtection: success by threat type and the target's level
executeProtection(threatType, userLevel) ==
  IF threatType = SandwichAttack THEN userLevel >= 2
  ELSE IF threatType = Frontrunning THEN userLevel >= 1
  ELSE IF threatType = JITLiquidity THEN userLevel >= 3
  ELSE userLevel >= 1

ThreatId(target, attacker, threatType, timestamp, transactionData) ==
  <<target, attacker, threatType, timestamp, transactionData>>

\* The whole call: the record stored, and for a protected target the
\* protection attempt with its reward, which only the address registered
\* in the token as the MEV protector may mint.
detectMEVThreat(caller, target, attacker, threatType, transactionData) ==
  LET threatId ==
        ThreatId(target, attacker, threatType, now, transactionData)
      prevented ==
        isProtected[target]
        /\ executeProtection(threatType, protectionLevel[target])
      outcome ==
        IF caller # authorizedIndexer THEN Failed(IndexerError)
        ELSE IF threatId \in detectedThreats
        THEN Failed("Threat already detected")
        ELSE IF threatType > LastThreatType THEN Failed("EnumPanic")
        ELSE IF prevented /\ mevProtectorContract # "mevProtector"
        THEN Failed("Only MEV Protector can call")
        ELSE [status |-> "ok", value |-> threatId]
      data ==
        [target |-> target, attacker |-> attacker,
         threatType |-> threatType, detectedAt |-> now,
         estimatedLoss |-> analyzeThreatSeverity(threatType),
         prevented |-> prevented, reporter |-> caller]
      stored == outcome.status = "ok"
  IN /\ detectedThreats' = IF stored THEN detectedThreats \cup {threatId}
                           ELSE detectedThreats
     /\ threats' = IF stored
                   THEN [id \in detectedThreats \cup {threatId} |->
                           IF id = threatId THEN data ELSE threats[id]]
                   ELSE threats
     /\ successfulPrevented' =
          IF stored /\ prevented
          THEN [successfulPrevented EXCEPT ![target] = @ + 1]
          ELSE successfulPrevented
     /\ rewardsMinted' =
          IF stored /\ prevented
          THEN [rewardsMinted EXCEPT ![target] = @ + protectionSuccessReward]
          ELSE rewardsMinted
     /\ balanceOf' =
          IF stored /\ prevented
          THEN [balanceOf EXCEPT ![target] = @ + protectionSuccessReward]
          ELSE balanceOf
     /\ totalSupply' =
          IF stored /\ prevented THEN totalSupply + protectionSuccessReward
          ELSE totalSupply
     /\ mcall' = [op |-> "detectMEVThreat", sender |-> caller,
                  args |-> [target |-> target, attacker |-> attacker,
                            threatType |-> threatType,
                            transactionData |-> transactionData],
                  at |-> now]
     /\ mret' = outcome
     /\ UNCHANGED <<authorizedIndexer, priceDeviationThreshold,
                    lastOraclePrices, lastOracleUpdate, isProtected,
                    protectionLevel, mevProtectorContract>>
     /\ UNCHANGED <<detectorState, now, call, ret, samples, observed, calls>>
     /\ UNCHANGED protectorVars
     /\ UNCHANGED analyticsVars
     /\ UNCHANGED monitorVars
     /\ UNCHANGED <<stakedBalance, stakingRewards, lastStakeTime,
                    threatReports, paused>>

\* block.timestamp grows by d seconds
Elapse(d) ==
  /\ now + d <= MaxOracleTime
  /\ now' = now + d
  /\ UNCHANGED <<detectorState, call, ret, samples, observed, calls>>
  /\ UNCHANGED protectorVars
  /\ UNCHANGED analyticsVars
  /\ UNCHANGED monitorVars
  /\ UNCHANGED mevProtectorVars
  /\ UNCHANGED tokenVars

\* ------------------------------------------------------------------------
\* AegilonToken: staking, rewards and transfers
\* ------------------------------------------------------------------------
getProtectionLevel(user) ==
  LET staked == stakedBalance[user]
  IN IF staked >= 10000 THEN 5
     ELSE IF staked >= 5000 THEN 4
     ELSE IF staked >= 1000 THEN 3
     ELSE IF staked >= 100 THEN 2
     ELSE IF staked >= 10 THEN 1
     ELSE 0

\* staked * APR * duration / (365 days * 10000), boosted once a protector
\* is registered.  The duration is counted in days and the amounts in whole
\* AEG: exact for stakes that are multiples of 7300 AEG held for multiples
\* of two days, the only stakes held while time passes.
calculateStakingRewards(user) ==
  IF stakedBalance[user] = 0 THEN 0
  ELSE
    LET stakingDuration == now - lastStakeTime[user]
        baseReward ==
          (stakedBalance[user] * stakingAPR * (stakingDuration \div Day))
            \div (365 * 10000)
    IN IF mevProtectorContract # ZeroAddress
       THEN (baseReward * protectionBoostMultiplier) \div 100
       ELSE baseReward

\* what a call to the token leaves alone outside the token
TokenFrame ==
  /\ UNCHANGED <<authorizedIndexer, priceDeviationThreshold,
                 lastOraclePrices, lastOracleUpdate, detectedThreats,
                 threats, isProtected, protectionLevel, successfulPrevented,
                 rewardsMinted>>
  /\ UNCHANGED <<threatReports, paused>>
  /\ UNCHANGED <<detectorState, now, call, ret, samples, observed, calls>>
  /\ UNCHANGED protectorVars
  /\ UNCHANGED analyticsVars
  /\ UNCHANGED monitorVars

\* ERC20.transfer
transfer(from, to, amount) ==
  LET outcome == IF balanceOf[from] < amount
                 THEN Failed("ERC20: transfer amount exceeds balance")
                 ELSE Done
  IN /\ balanceOf' = IF outcome.status = "ok"
                     THEN [[balanceOf EXCEPT ![from] = @ - amount]
                             EXCEPT ![to] = @ + amount]
                     ELSE balanceOf
     /\ mcall' = [op |-> "transfer", sender |-> from,
                  args |-> [to |-> to, amount |-> amount], at |-> now]
     /\ mret' = outcome
     /\ UNCHANGED <<totalSupply, stakedBalance, stakingRewards,
                    lastStakeTime, mevProtectorContract>>
     /\ TokenFrame

stakeTokens(caller, amount) ==
  LET outcome ==
        IF ~(amount > 0) THEN Failed("Amount must be greater than 0")
        ELSE IF ~(balanceOf[caller] >= amount)
        THEN Failed("Insufficient balance")
        ELSE Done
      ok == outcome.status = "ok"
      pendingRewards == IF stakedBalance[caller] > 0
                        THEN calculateStakingRewards(caller) ELSE 0
  IN /\ stakingRewards' = IF ok
                          THEN [stakingRewards EXCEPT
                                  ![caller] = @ + pendingRewards]
                          ELSE stakingRewards
     /\ balanceOf' = IF ok
                     THEN [balanceOf EXCEPT ![caller] = @ - amount,
                                            !["token"] = @ + amount]
                     ELSE balanceOf
     /\ stakedBalance' = IF ok
                         THEN [stakedBalance EXCEPT ![caller] = @ + amount]
                         ELSE stakedBalance
     /\ lastStakeTime' = IF ok THEN [lastStakeTime EXCEPT ![caller] = now]
                         ELSE lastStakeTime
     /\ mcall' = [op |-> "stakeTokens", sender |-> caller,
                  args |-> [amount |-> amount], at |-> now]
     /\ mret' = outcome
     /\ UNCHANGED <<totalSupply, mevProtectorContract>>
     /\ TokenFrame

unstakeTokens(caller, amount) ==
  LET outcome ==
        IF ~(amount > 0) THEN Failed("Amount must be greater than 0")
        ELSE IF ~(stakedBalance[caller] >= amount)
        THEN Failed("Insufficient staked balance")
        ELSE Done
      ok == outcome.status = "ok"
      pendingRewards == calculateStakingRewards(caller)
  IN /\ stakingRewards' = IF ok
                          THEN [stakingRewards EXCEPT
                                  ![caller] = @ + pendingRewards]
                          ELSE stakingRewards
     /\ stakedBalance' = IF ok
                         THEN [stakedBalance EXCEPT ![caller] = @ - amount]
                         ELSE stakedBalance
     /\ lastStakeTime' = IF ok THEN [lastStakeTime EXCEPT ![caller] = now]
                         ELSE lastStakeTime
     /\ balanceOf' = IF ok
                     THEN [balanceOf EXCEPT !["token"] = @ - amount,
                                            ![caller] = @ + amount]
                     ELSE balanceOf
     /\ mcall' = [op |-> "unstakeTokens", sender |-> caller,
                  args |-> [amount |-> amount], at |-> now]
     /\ mret' = outcome
     /\ UNCHANGED <<totalSupply, mevProtectorContract>>
     /\ TokenFrame

\* The rewards are minted, not transferred.
claimRewards(caller) ==
  LET pendingRewards == calculateStakingRewards(caller)
      totalRewards == stakingRewards[caller] + pendingRewards
      outcome == IF ~(totalRewards > 0) THEN Failed("No rewards to claim")
                 ELSE Done
      ok == outcome.status = "ok"
  IN /\ stakingRewards' = IF ok THEN [stakingRewards EXCEPT ![caller] = 0]
                          ELSE stakingRewards
     /\ lastStakeTime' = IF ok THEN [lastStakeTime EXCEPT ![caller] = now]
                         ELSE lastStakeTime
     /\ balanceOf' = IF ok
                     THEN [balanceOf EXCEPT ![caller] = @ + totalRewards]
                     ELSE balanceOf
     /\ totalSupply' = IF ok THEN totalSupply + totalRewards ELSE totalSupply
     /\ mcall' = [op |-> "claimRewards", sender |-> caller,
                  args |-> [totalRewards |-> totalRewards], at |-> now]
     /\ mret' = outcome
     /\ UNCHANGED <<stakedBalance, mevProtectorContract>>
     /\ TokenFrame

setMEVProtectorContract(caller, _mevProtectorContract) ==
  LET outcome == IF caller # TokenOwner THEN Failed(NotOwnerError) ELSE Done
  IN /\ mevProtectorContract' = IF outcome.status = "ok"
                                THEN _mevProtectorContract
                                ELSE mevProtectorContract
     /\ mcall' = [op |-> "setMEVProtectorContract", sender |-> caller,
                  args |-> [mevProtectorContract |-> _mevProtectorContract],
                  at |-> now]
     /\ mret' = outcome
     /\ UNCHANGED <<totalSupply, balanceOf, stakedBalance, stakingRewards,
                    lastStakeTime>>
     /\ TokenFrame

\* ------------------------------------------------------------------------
\* MEVProtector: protection status, pausing and community reports
\* ------------------------------------------------------------------------
\* what a call to MEVProtector that mints nothing leaves alone outside it
ProtectorFrame ==
  /\ UNCHANGED <<authorizedIndexer, priceDeviationThreshold,
                 lastOraclePrices, lastOracleUpdate, detectedThreats,
                 threats, successfulPrevented, mevProtectorContract,
                 rewardsMinted>>
  /\ UNCHANGED <<stakedBalance, stakingRewards, lastStakeTime>>
  /\ UNCHANGED <<detectorState, now, call, ret, samples, observed, calls>>
  /\ UNCHANGED protectorVars
  /\ UNCHANGED analyticsVars
  /\ UNCHANGED monitorVars

\* variant: the staked level is not required
activateProtectionAnyLevel(caller) ==
  LET userProtectionLevel == getProtectionLevel(caller)
      outcome == IF paused THEN Failed("Pausable: paused") ELSE Done
      ok == outcome.status = "ok"
  IN /\ isProtected' = IF ok THEN [isProtected EXCEPT ![caller] = TRUE]
                       ELSE isProtected
     /\ protectionLevel' =
          IF ok THEN [protectionLevel EXCEPT ![caller] = userProtectionLevel]
          ELSE protectionLevel
     /\ mcall' = [op |-> "activateProtection", sender |-> caller,
                  args |-> [level |-> userProtectionLevel], at |-> now]
     /\ mret' = outcome
     /\ UNCHANGED <<totalSupply, balanceOf, threatReports, paused>>
     /\ ProtectorFrame

activateProtection(caller) ==
  LET userProtectionLevel == getProtectionLevel(caller)
      outcome ==
        IF paused THEN Failed("Pausable: paused")
        ELSE IF ~(userProtectionLevel > 0)
        THEN Failed("Insufficient AEG tokens staked for protection")
        ELSE Done
      ok == outcome.status = "ok"
  IN /\ isProtected' = IF ok THEN [isProtected EXCEPT ![caller] = TRUE]
                       ELSE isProtected
     /\ protectionLevel' =
          IF ok THEN [protectionLevel EXCEPT ![caller] = userProtectionLevel]
          ELSE protectionLevel
     /\ mcall' = [op |-> "activateProtection", sender |-> caller,
                  args |-> [level |-> userProtectionLevel], at |-> now]
     /\ mret' = outcome
     /\ UNCHANGED <<totalSupply, balanceOf, threatReports, paused>>
     /\ ProtectorFrame

deactivateProtection(caller) ==
  LET outcome == IF ~isProtected[caller] THEN Failed("Protection not active")
                 ELSE Done
      ok == outcome.status = "ok"
  IN /\ isProtected' = IF ok THEN [isProtected EXCEPT ![caller] = FALSE]
                       ELSE isProtected
     /\ protectionLevel' = IF ok THEN [protectionLevel EXCEPT ![caller] = 0]
                           ELSE protectionLevel
     /\ mcall' = [op |-> "deactivateProtection", sender |-> caller,
                  args |-> <<>>, at |-> now]
     /\ mret' = outcome
     /\ UNCHANGED <<totalSupply, balanceOf, threatReports, paused>>
     /\ ProtectorFrame

\* Pausable._pause behind onlyOwner
pause(caller) ==
  LET outcome == IF caller # MevProtectorOwner THEN Failed(NotOwnerError)
                 ELSE IF paused THEN Failed("Pausable: paused")
                 ELSE Done
  IN /\ paused' = IF outcome.status = "ok" THEN TRUE ELSE paused
     /\ mcall' = [op |-> "pause", sender |-> caller, args |-> <<>>,
                  at |-> now]
     /\ mret' = outcome
     /\ UNCHANGED <<totalSupply, balanceOf, threatReports, isProtected,
                    protectionLevel>>
     /\ ProtectorFrame

unpause(caller) ==
  LET outcome == IF caller # MevProtectorOwner THEN Failed(NotOwnerError)
                 ELSE IF ~paused THEN Failed("Pausable: not paused")
                 ELSE Done
  IN /\ paused' = IF outcome.status = "ok" THEN FALSE ELSE paused
     /\ mcall' = [op |-> "unpause", sender |-> caller, args |-> <<>>,
                  at |-> now]
     /\ mret' = outcome
     /\ UNCHANGED <<totalSupply, balanceOf, threatReports, isProtected,
                    protectionLevel>>
     /\ ProtectorFrame

\* variant: a reporter is rewarded once
reportThreatOncePerReporter(caller, threatId) ==
  LET outcome ==
        IF threatId \notin detectedThreats THEN Failed("Threat not detected")
        ELSE IF threats[threatId].reporter = caller
        THEN Failed("Cannot report own detection")
        ELSE IF threatReports[caller] > 0 THEN Failed("Already reported")
        ELSE IF mevProtectorContract # "mevProtector"
        THEN Failed("Only MEV Protector can call")
        ELSE Done
      ok == outcome.status = "ok"
  IN /\ threatReports' = IF ok THEN [threatReports EXCEPT ![caller] = @ + 1]
                         ELSE threatReports
     /\ balanceOf' = IF ok
                     THEN [balanceOf EXCEPT ![caller] = @ + threatReportReward]
                     ELSE balanceOf
     /\ totalSupply' = IF ok THEN totalSupply + threatReportReward
                       ELSE totalSupply
     /\ mcall' = [op |-> "reportThreat", sender |-> caller,
                  args |-> [threatId |-> threatId], at |-> now]
     /\ mret' = outcome
     /\ UNCHANGED <<isProtected, protectionLevel, paused>>
     /\ ProtectorFrame

\* The reward is minted by the token, which accepts the call only from the
\* address registered as its MEV protector; its revert undoes the count.
reportThreat(caller, threatId) ==
  LET outcome ==
        IF threatId \notin detectedThreats THEN Failed("Threat not detected")
        ELSE IF threats[threatId].reporter = caller
        THEN Failed("Cannot report own detection")
        ELSE IF mevProtectorContract # "mevProtector"
        THEN Failed("Only MEV Protector can call")
        ELSE Done
      ok == outcome.status = "ok"
  IN /\ threatReports' = IF ok THEN [threatReports EXCEPT ![caller] = @ + 1]
                         ELSE threatReports
     /\ balanceOf' = IF ok
                     THEN [balanceOf EXCEPT ![caller] = @ + threatReportReward]
                     ELSE balanceOf
     /\ totalSupply' = IF ok THEN totalSupply + threatReportReward
                       ELSE totalSupply
     /\ mcall' = [op |-> "reportThreat", sender |-> caller,
                  args |-> [threatId |-> threatId], at |-> now]
     /\ mret' = outcome
     /\ UNCHANGED <<isProtected, protectionLevel, paused>>
     /\ ProtectorFrame

\* ------------------------------------------------------------------------
\* Specifications of the token and of the protection status
\* ------------------------------------------------------------------------
\* AEG each user is sent once by the deployer, and what they then stake
Funding == [u \in Users |-> IF u = "user1" THEN 15 ELSE 100]
StakeAmounts == [u \in Users |-> IF u = "user1" THEN {0, 5, 10} ELSE {100}]
UnstakeAmounts == [u \in Users |-> IF u = "user1" THEN {10} ELSE {100}]

\* Users receive AEG from the deployer, stake and unstake it, and switch
\* their protection on and off while the owner pauses and unpauses.
NextProtection ==
  \/ \E u \in Users :
       /\ balanceOf[u] + stakedBalance[u] = 0
       /\ transfer(TokenOwner, u, Funding[u])
  \/ \E u \in Users : \E amount \in StakeAmounts[u] : stakeTokens(u, amount)
  \/ \E u \in Users : \E amount \in UnstakeAmounts[u] :
       unstakeTokens(u, amount)
  \/ \E u \in Users : activateProtection(u)
  \/ \E u \in Users : deactivateProtection(u)
  \/ \E caller \in {"owner", "user1"} : pause(caller)
  \/ \E caller \in {"owner", "user1"} : unpause(caller)

SpecProtection == Init /\ [][NextProtection]_vars

StakeUnit == 7300     \* AEG earning 1 AEG a day at 5% a year

\* block.timestamp grows by whole days
PassDays(days) ==
  /\ now + days * Day <= 1 + MaxStakingDays * Day
  /\ now' = now + days * Day
  /\ UNCHANGED <<detectorState, call, ret, samples, observed, calls>>
  /\ UNCHANGED protectorVars
  /\ UNCHANGED analyticsVars
  /\ UNCHANGED monitorVars
  /\ UNCHANGED mevProtectorVars
  /\ UNCHANGED tokenVars

\* One staker and one reporter on a wired or unwired deployment: stakes
\* held over days, rewards claimed, a threat detected and reported.
NextToken ==
  \/ /\ stakedBalance["user1"] + StakeUnit <= MaxStakeFunded
     /\ balanceOf["user1"] < StakeUnit
     /\ transfer(TokenOwner, "user1", StakeUnit)
  \/ stakeTokens("user1", StakeUnit)
  \/ unstakeTokens("user1", StakeUnit)
  \/ claimRewards("user1")
  \/ PassDays(2)
  \/ setMEVProtectorContract("owner", "mevProtector")
  \/ setAuthorizedIndexer("owner", "indexer")
  \/ activateProtection("user1")
  \/ /\ Cardinality(detectedThreats) < MaxThreats
     /\ detectMEVThreat("indexer", "user1", "attacker", Frontrunning, "0x")
  \/ \E threatId \in detectedThreats :
       /\ threatReports["user2"] < 1
       /\ reportThreat("user2", threatId)

SpecToken == Init /\ [][NextToken]_vars

\* a threat id that is never detected
UndetectedThreat == ThreatId("user1", "attacker", Frontrunning, 0, "0x")

\* The indexer records threats at successive timestamps and everybody
\* reports them, on a wired or unwired deployment.
NextReports ==
  \/ setAuthorizedIndexer("owner", "indexer")
  \/ setMEVProtectorContract("owner", "mevProtector")
  \/ /\ Cardinality(detectedThreats) < MaxThreats
     /\ \E threatType \in {SandwichAttack, Frontrunning} :
          detectMEVThreat("indexer", "user1", "attacker", threatType, "0x")
  \/ \E caller \in {"indexer", "user1", "user2"},
        threatId \in detectedThreats \cup {UndetectedThreat} :
       /\ threatReports[caller] < MaxReports
       /\ reportThreat(caller, threatId)
  \/ /\ now < MaxReportTime
     /\ Elapse(1)

SpecReports == Init /\ [][NextReports]_vars

\* ------------------------------------------------------------------------
\* MEVMonitoringStream: start and the alert poll
\* ------------------------------------------------------------------------
\* what the monitor and the indexer leave alone
MonitorFrame ==
  /\ UNCHANGED <<detectorState, now, call, ret, samples, observed, calls>>
  /\ UNCHANGED protectorVars
  /\ UNCHANGED mevProtectorVars
  /\ UNCHANGED analyticsVars
  /\ UNCHANGED tokenVars

\* The subgraph indexes one more block holding n alerts; ids grow with the
\* block number, so mevAlerts is in the query's order (blockNumber asc).
IndexBlock(n) ==
  /\ metaBlock < MaxBlock
  /\ metaBlock' = metaBlock + 1
  /\ mevAlerts' = mevAlerts \o [i \in 1 .. n |-> metaBlock + 1]
  /\ processedAlerts' = processedAlerts \o [i \in 1 .. n |-> 0]
  /\ UNCHANGED <<isRunning, lastBlockProcessed, alertCount, startBlock>>
  /\ MonitorFrame

\* _meta.block.number, or 0 when the query fails
getLatestBlock(ok) == IF ok THEN metaBlock ELSE 0

\* start(), called once on a new monitor
start(ok) ==
  /\ ~isRunning
  /\ isRunning' = TRUE
  /\ lastBlockProcessed' = getLatestBlock(ok)
  /\ startBlock' = getLatestBlock(ok)
  /\ UNCHANGED <<alertCount, mevAlerts, metaBlock, processedAlerts>>
  /\ MonitorFrame

\* the ids the alert query returns: blockNumber_gt lastBlock, first 100 in
\* ascending order
QueryAlerts(lastBlock) ==
  LET matching == {i \in 1 .. Len(mevAlerts) : mevAlerts[i] > lastBlock}
  IN {i \in matching : Cardinality({j \in matching : j < i}) < PageSize}

\* One run of pollForAlerts, from the timer to the next setTimeout: a
\* failed request is caught and processes nothing.
pollForAlerts(ok) ==
  /\ isRunning
  /\ \E page \in {IF ok THEN QueryAlerts(lastBlockProcessed) ELSE {}} :
       /\ processedAlerts' = [i \in 1 .. Len(processedAlerts) |->
                                IF i \in page THEN processedAlerts[i] + 1
                                ELSE processedAlerts[i]]
       /\ alertCount' = alertCount + Cardinality(page)
       /\ lastBlockProcessed' =
            IF page = {} THEN lastBlockProcessed
            ELSE LET top == CHOOSE i \in page : \A j \in page : j <= i
                 IN IF mevAlerts[top] > lastBlockProcessed
                    THEN mevAlerts[top] ELSE lastBlockProcessed
  /\ UNCHANGED <<isRunning, mevAlerts, metaBlock, startBlock>>
  /\ MonitorFrame

AlertsPerBlock == {0, 1, 101}

\* The indexer and the monitor interleave freely; the poll timer fires
\* again after every run, and requests do not fail forever.
NextMonitor ==
  \/ \E n \in AlertsPerBlock : IndexBlock(n)
  \/ \E ok \in BOOLEAN : start(ok)
  \/ \E ok \in BOOLEAN : pollForAlerts(ok)

SpecMonitor ==
  Init /\ [][NextMonitor]_vars /\ WF_vars(pollForAlerts(TRUE))

MevCallers == {"owner", "indexer", "user1"}
IndexerAddresses == {"indexer"}
OraclePrices == {0, 2000}
\* against 2000 at the threshold of 200: deviations 205, 200, 0, 200, 205
CurrentPrices == {1959, 1960, 2000, 2040, 2041}
OracleSteps == {299, 300}
DeviationThresholds == {200, 205, 1001}

\* The indexer feeds prices while time passes and anyone asks for the
\* anomaly verdict.
NextOracle ==
  \/ \E caller \in MevCallers, _indexer \in IndexerAddresses :
       setAuthorizedIndexer(caller, _indexer)
  \/ \E caller \in MevCallers, _threshold \in DeviationThresholds :
       setPriceDeviationThreshold(caller, _threshold)
  \/ \E caller \in MevCallers, symbol \in Symbols, price \in OraclePrices :
       updateOraclePrice(caller, symbol, price)
  \/ \E caller \in MevCallers, symbol \in Symbols,
        currentPrice \in CurrentPrices :
       CheckPriceAnomaly(caller, symbol, currentPrice)
  \/ \E d \in OracleSteps : Elapse(d)

SpecOracle == Init /\ [][NextOracle]_vars

\* ------------------------------------------------------------------------
\* Subgraph analytics: detection, scoring and alerts
\* ------------------------------------------------------------------------
\* A Transaction entity as the handlers create it: not yet analysed.
Transaction(hash, to, gasPrice, value, timestamp) ==
  [hash |-> hash, to |-> to, gasPrice |-> gasPrice, value |-> value,
   timestamp |-> timestamp, isMEV |-> FALSE, riskScore |-> 0,
   isHighGas |-> FALSE, isPotentialSandwich |-> FALSE,
   isPotentialFrontRun |-> FALSE, isArbitrage |-> FALSE]

\* A cached transaction to the same contract, at most 5 seconds before
\* blockTimestamp, with a higher gas price.
detectSandwich(recent, transaction, blockTimestamp) ==
  \E i \in 1..Len(recent) :
    /\ recent[i].to # NoAddress
    /\ transaction.to # NoAddress
    /\ recent[i].to = transaction.to
    /\ blockTimestamp - recent[i].timestamp <= SANDWICH_TIME_WINDOW
    /\ recent[i].gasPrice > transaction.gasPrice

\* Gas price above 115% of the average and a cached transaction to the
\* same contract.
detectFrontRun(recent, transaction, avgGasPrice) ==
  LET gasThreshold == (avgGasPrice * FRONT_RUN_GAS_MULTIPLIER) \div 100
  IN /\ transaction.gasPrice > gasThreshold
     /\ \E i \in 1..Len(recent) :
          /\ recent[i].to # NoAddress
          /\ transaction.to # NoAddress
          /\ recent[i].to = transaction.to

\* detectArbitrage limited to values up to the high-value threshold
detectArbitrageBelowHighValue(transaction, blockTimestamp) ==
  /\ transaction.value > WAD
  /\ transaction.value <= 10 * WAD
  /\ transaction.gasPrice > 0

\* More than 1 ETH moved at a positive gas price.
detectArbitrage(transaction, blockTimestamp) ==
  /\ transaction.value > WAD
  /\ transaction.gasPrice > 0

\* calculateRiskScore without the clamp to 100
calculateRiskScoreUnclamped(recent, transaction, avgGasPrice, blockTimestamp) ==
  LET gasScore ==
        IF avgGasPrice > 0
        THEN IF transaction.gasPrice * 10 > 20 * avgGasPrice THEN 30
             ELSE IF transaction.gasPrice * 10 > 15 * avgGasPrice THEN 20
             ELSE IF transaction.gasPrice * 10 > 12 * avgGasPrice THEN 10
             ELSE 0
        ELSE 0
      valueScore ==
        IF transaction.value > 10 * WAD THEN 25
        ELSE IF transaction.value > WAD THEN 15
        ELSE 0
  IN gasScore + valueScore
       + (IF detectSandwich(recent, transaction, blockTimestamp)
          THEN 25 ELSE 0)
       + (IF detectFrontRun(recent, transaction, avgGasPrice)
          THEN 20 ELSE 0)
       + (IF detectArbitrage(transaction, blockTimestamp) THEN 15 ELSE 0)

\* calculateRiskScore with every matching tier of a factor added
calculateRiskScoreStacked(recent, transaction, avgGasPrice, blockTimestamp) ==
  LET gasScore ==
        IF avgGasPrice > 0
        THEN (IF transaction.gasPrice * 10 > 20 * avgGasPrice
              THEN 30 ELSE 0)
             + (IF transaction.gasPrice * 10 > 15 * avgGasPrice
                THEN 20 ELSE 0)
             + (IF transaction.gasPrice * 10 > 12 * avgGasPrice
                THEN 10 ELSE 0)
        ELSE 0
      valueScore ==
        (IF transaction.value > 10 * WAD THEN 25 ELSE 0)
        + (IF transaction.value > WAD THEN 15 ELSE 0)
      score ==
        gasScore + valueScore
        + (IF detectSandwich(recent, transaction, blockTimestamp)
           THEN 25 ELSE 0)
        + (IF detectFrontRun(recent, transaction, avgGasPrice)
           THEN 20 ELSE 0)
        + (IF detectArbitrage(transaction, blockTimestamp) THEN 15 ELSE 0)
  IN IF score < 100 THEN score ELSE 100

\* The score of a transaction over the cache `recent`. The gas ratio
\* gasPrice / avgGasPrice is compared with 2.0, 1.5 and 1.2 by comparing
\* 10 * gasPrice with 20, 15 and 12 times the average.
calculateRiskScore(recent, transaction, avgGasPrice, blockTimestamp) ==
  LET gasScore ==
        IF avgGasPrice > 0
        THEN IF transaction.gasPrice * 10 > 20 * avgGasPrice THEN 30
             ELSE IF transaction.gasPrice * 10 > 15 * avgGasPrice THEN 20
             ELSE IF transaction.gasPrice * 10 > 12 * avgGasPrice THEN 10
             ELSE 0
        ELSE 0
      valueScore ==
        IF transaction.value > 10 * WAD THEN 25
        ELSE IF transaction.value > WAD THEN 15
        ELSE 0
      score ==
        gasScore + valueScore
        + (IF detectSandwich(recent, transaction, blockTimestamp)
           THEN 25 ELSE 0)
        + (IF detectFrontRun(recent, transaction, avgGasPrice)
           THEN 20 ELSE 0)
        + (IF detectArbitrage(transaction, blockTimestamp) THEN 15 ELSE 0)
  IN IF score < 100 THEN score ELSE 100

\* createMEVAlert with CRITICAL starting at 75
createMEVAlertCriticalAt75(transaction, threatType, riskScore, blockTimestamp) ==
  [threatType |-> threatType,
   severity |-> IF riskScore >= 75 THEN "CRITICAL"
                ELSE IF riskScore > 50 THEN "HIGH"
                ELSE IF riskScore > 25 THEN "MEDIUM"
                ELSE "LOW",
   riskScore |-> riskScore,
   gasPrice |-> transaction.gasPrice,
   gasCost |-> IF transaction.gasPrice > BaseGas
               THEN transaction.gasPrice - BaseGas ELSE 0,
   prevented |-> FALSE,
   timestamp |-> blockTimestamp]

\* The MEVAlert entity createMEVAlert saves under <<hash, threatType>>.
createMEVAlert(transaction, threatType, riskScore, blockTimestamp) ==
  [threatType |-> threatType,
   severity |-> IF riskScore > 75 THEN "CRITICAL"
                ELSE IF riskScore > 50 THEN "HIGH"
                ELSE IF riskScore > 25 THEN "MEDIUM"
                ELSE "LOW",
   riskScore |-> riskScore,
   gasPrice |-> transaction.gasPrice,
   gasCost |-> IF transaction.gasPrice > BaseGas
               THEN transaction.gasPrice - BaseGas ELSE 0,
   prevented |-> FALSE,
   timestamp |-> blockTimestamp]

\* push, and drop the oldest beyond 50
addToRecentTransactions(recent, transaction) ==
  LET pushed == Append(recent, transaction)
  IN IF Len(pushed) > MAX_RECENT_TRANSACTIONS THEN Tail(pushed) ELSE pushed

\* the entity store after saving entity under id
Saved(store, id, entity) ==
  [k \in DOMAIN store \cup {id} |-> IF k = id THEN entity ELSE store[k]]

\* analyzeTransactionMEV / analyzeMEVPatterns: score the transaction over
\* the cache, save it, add it to the cache, then for a score above 50 save
\* one alert per detector that fires over the cache that now holds the
\* transaction, and the generic alert when none of its three flags is set.
analyzeMEVPatterns(transaction, avgGasPrice, blockTimestamp) ==
  LET riskScore == calculateRiskScore(recentTransactions, transaction,
                                      avgGasPrice, blockTimestamp)
      analysed == [transaction EXCEPT !.isMEV = riskScore > 50,
                                      !.riskScore = riskScore]
      cache == addToRecentTransactions(recentTransactions, analysed)
      created ==
        IF riskScore > 50
        THEN (IF detectSandwich(cache, analysed, blockTimestamp)
              THEN {"SANDWICH"} ELSE {})
             \cup (IF detectFrontRun(cache, analysed, avgGasPrice)
                   THEN {"FRONTRUN"} ELSE {})
             \cup (IF detectArbitrage(analysed, blockTimestamp)
                   THEN {"ARBITRAGE"} ELSE {})
             \cup (IF /\ ~analysed.isPotentialSandwich
                      /\ ~analysed.isPotentialFrontRun
                      /\ ~analysed.isArbitrage
                   THEN {"POTENTIAL_MEV"} ELSE {})
        ELSE {}
      ids == {<<transaction.hash, threatType>> : threatType \in created}
  IN /\ transactions' = Saved(transactions, transaction.hash, analysed)
     /\ recentTransactions' = cache
     /\ alerts' = [id \in DOMAIN alerts \cup ids |->
                     IF id \in ids
                     THEN createMEVAlert(analysed, id[2], riskScore,
                                         blockTimestamp)
                     ELSE alerts[id]]
     /\ acall' = [op |-> "analyzeMEVPatterns",
                  transaction |-> transaction,
                  avgGasPrice |-> avgGasPrice,
                  blockTimestamp |-> blockTimestamp,
                  recent |-> recentTransactions,
                  riskScore |-> riskScore,
                  sandwich |-> detectSandwich(recentTransactions,
                                              transaction, blockTimestamp),
                  frontRun |-> detectFrontRun(recentTransactions,
                                              transaction, avgGasPrice),
                  arbitrage |-> detectArbitrage(transaction, blockTimestamp),
                  created |-> created]
     /\ UNCHANGED <<detectorState, now, call, ret, samples, observed, calls>>
     /\ UNCHANGED protectorVars
     /\ UNCHANGED mevProtectorVars
     /\ UNCHANGED monitorVars
     /\ UNCHANGED tokenVars

\* createMEVAlert called on its own with a score the caller computed
CreateMEVAlert(transaction, threatType, riskScore, blockTimestamp) ==
  /\ alerts' = Saved(alerts, <<transaction.hash, threatType>>,
                     createMEVAlert(transaction, threatType, riskScore,
                                    blockTimestamp))
  /\ UNCHANGED <<recentTransactions, transactions, acall>>
  /\ UNCHANGED <<detectorState, now, call, ret, samples, observed, calls>>
  /\ UNCHANGED protectorVars
  /\ UNCHANGED mevProtectorVars
  /\ UNCHANGED monitorVars
  /\ UNCHANGED tokenVars

\* mev-protector.ts: the alert saved for a MEVThreatDetected event
createMEVAlertFromThreat(threat, threatType) ==
  /\ alerts' = Saved(alerts, <<threat.threatId, "alert">>,
                     [threatType |-> threatType,
                      severity |-> "HIGH",
                      riskScore |-> 75,
                      gasPrice |-> threat.gasPrice,
                      gasCost |-> threat.gasCost,
                      prevented |-> threat.prevented,
                      timestamp |-> threat.timestamp])
  /\ UNCHANGED <<recentTransactions, transactions, acall>>
  /\ UNCHANGED <<detectorState, now, call, ret, samples, observed, calls>>
  /\ UNCHANGED protectorVars
  /\ UNCHANGED mevProtectorVars
  /\ UNCHANGED monitorVars
  /\ UNCHANGED tokenVars

NoAnalytics == [found |-> FALSE, avgGasPrice |-> 0]

\* aegilon-token-enhanced.ts handleTransfer, its Transaction and MEVAlert
\* entities: the transaction is loaded or created, and when the interval
\* has gas analytics and the event's gas price is more than twice their
\* average it is marked high-gas with score 30 and a MEDIUM alert is saved.
handleTransfer(hash, to, gasPrice, gasUsed, value, timestamp, analytics) ==
  LET loaded == IF hash \in DOMAIN transactions THEN transactions[hash]
                ELSE Transaction(hash, to, gasPrice, value, timestamp)
      highGas == analytics.found /\ gasPrice > analytics.avgGasPrice * 2
      transaction == IF highGas
                     THEN [loaded EXCEPT !.isHighGas = TRUE, !.riskScore = 30]
                     ELSE loaded
  IN /\ transactions' = Saved(transactions, hash, transaction)
     /\ alerts' = IF highGas
                  THEN Saved(alerts, <<hash, "high-gas">>,
                             [threatType |-> "HIGH_RISK_MEV",
                              severity |-> "MEDIUM",
                              riskScore |-> 30,
                              gasPrice |-> gasPrice,
                              gasCost |-> gasPrice * gasUsed,
                              prevented |-> FALSE,
                              timestamp |-> timestamp])
                  ELSE alerts
     /\ UNCHANGED <<recentTransactions, acall>>
     /\ UNCHANGED <<detectorState, now, call, ret, samples, observed, calls>>
     /\ UNCHANGED protectorVars
     /\ UNCHANGED mevProtectorVars
     /\ UNCHANGED monitorVars
     /\ UNCHANGED tokenVars

Contracts == {"pool1", "pool2", NoAddress}
AvgGasPrices == {0, 20}
\* against an average of 20: ratios at and just above 1.2, 1.5 and 2.0
TxGasPrices == {0, 24, 25, 30, 31, 40, 41, 50}
\* in ETH: 0, 0.5, 1, just above 1, 10, just above 10
TxValues == {0, 500, 1000, 1001, 10000, 10001}
BlockTimestamps == {15, 16}
AlertScores == {0, 25, 26, 50, 51, 75, 76, 100}

\* A first transaction fills the cache, then a second one is scored
\* against it.
NextScore ==
  \/ /\ Len(recentTransactions) = 0
     /\ \E to \in {"pool1", NoAddress}, gasPrice \in {0, 50},
           avgGasPrice \in AvgGasPrices :
          analyzeMEVPatterns(Transaction("0xa", to, gasPrice, 0, 10),
                             avgGasPrice, 10)
  \/ /\ Len(recentTransactions) > 0
     /\ Len(recentTransactions) < MaxAnalyses
     /\ \E to \in Contracts, gasPrice \in TxGasPrices, value \in TxValues,
           avgGasPrice \in AvgGasPrices, blockTimestamp \in BlockTimestamps :
          analyzeMEVPatterns(Transaction("0xb", to, gasPrice, value,
                                         blockTimestamp),
                             avgGasPrice, blockTimestamp)

SpecScore == Init /\ [][NextScore]_vars

\* The three places that save a MEVAlert, and createMEVAlert on its own.
NextAlerts ==
  \/ /\ Len(recentTransactions) < MaxAnalyses
     /\ \E gasPrice \in {41, 50}, value \in {0, 10001} :
          analyzeMEVPatterns(Transaction("0xa", "pool1", gasPrice, value, 15),
                             20, 15)
  \/ \E riskScore \in AlertScores :
       CreateMEVAlert(Transaction("0xc", "pool1", 30, 0, 15), "POTENTIAL_MEV",
                      riskScore, 15)
  \/ \E prevented \in BOOLEAN :
       createMEVAlertFromThreat(
         [threatId |-> "0xt", gasPrice |-> 30, gasCost |-> 30 * 21,
          prevented |-> prevented, timestamp |-> 15], "0")
  \/ \E hash \in {"0xa", "0xd"}, gasPrice \in {40, 41},
        analytics \in {NoAnalytics, [found |-> TRUE, avgGasPrice |-> 20]} :
       handleTransfer(hash, "pool1", gasPrice, 21, 0, 15, analytics)

SpecAlerts == Init /\ [][NextAlerts]_vars

\* no call has reached the contract yet
DetectorIdle ==
  /\ calls = 0
  /\ owner = "owner"
  /\ riskThreshold = InitialRiskThreshold
  /\ minPriceDelta = InitialMinPriceDelta
  /\ frontRunGasMultiplier = InitialFrontRunGasMultiplier
ProtectorIdle == pcall = NoProtectorCall /\ whitelistedTokens = {}
MevProtectorIdle == mcall = NoMevProtectorCall

\* Owners, the indexer and everybody else calling the restricted
\* operations. The three contracts share no state through these
\* operations, so a behaviour keeps to the contract it called first.
NextAuth ==
  \/ /\ ProtectorIdle /\ MevProtectorIdle
     /\ \/ /\ calls < MaxCalls
           /\ \E caller \in Addresses, txGasPrice \in {BaseGas, SpikeGas} :
                DetectMEV(caller, "ETH", 2000, [ok |-> TRUE, value |-> 2200],
                          txGasPrice)
        \/ \E caller \in Addresses, v \in {300, 500} :
             setRiskThreshold(caller, v)
        \/ \E caller \in Addresses, v \in {0, 100} :
             setMinPriceDelta(caller, v)
        \/ \E caller \in Addresses, v \in {120, 150} :
             setFrontRunGasMultiplier(caller, v)
        \/ \E caller \in Addresses : transferOwnership(caller, "user1")
  \/ /\ DetectorIdle /\ MevProtectorIdle
     /\ \/ ConfigureProtection("user1", "REVERT", 500, 200000, FALSE)
        \/ \E caller \in Addresses, newFee \in {0, 500} :
             setProtectionFee(caller, newFee)
        \/ \E caller \in Addresses, token \in Tokens :
             addWhitelistedToken(caller, token)
        \/ \E caller \in Addresses, token \in Tokens :
             removeWhitelistedToken(caller, token)
        \/ \E caller \in Addresses,
              newTreasury \in TreasuryAddresses \cup {ZeroAddress} :
             setTreasury(caller, newTreasury)
        \/ \E caller \in Addresses,
              newDetector \in DetectorAddresses \cup {ZeroAddress} :
             updateDetector(caller, newDetector)
        \/ \E caller \in Addresses : emergencyStop(caller, "user1")
  \/ /\ DetectorIdle /\ ProtectorIdle
     /\ \/ \E caller \in MevCallers, _indexer \in {"indexer", "user1"} :
             setAuthorizedIndexer(caller, _indexer)
        \/ \E caller \in MevCallers, price \in {2000, 2100} :
             updateOraclePrice(caller, "ETH", price)
        \/ \E caller \in MevCallers, threatType \in {Frontrunning, 6} :
             detectMEVThreat(caller, "user1", "attacker", threatType, "0x")

SpecAuth == Init /\ [][NextAuth]_vars

\* ------------------------------------------------------------------------
\* Properties
\* ------------------------------------------------------------------------
IsDetect == call.op = "detectMEV"
\* the latest detectMEV call returned a verdict
Ok == IsDetect /\ ret.status = "ok"
\* the latest detectMEV call got past the owner check and the oracle read
Evaluated == IsDetect /\ call.caller = owner /\ call.oracle.ok

\* floor(|currentPrice - expectedPrice| * 10000 / expectedPrice) of the call
CallSlippage ==
  LET c == call.oracle.value
      e == call.expectedPrice
  IN ((IF c >= e THEN c - e ELSE e - c) * 10000) \div e

SandwichCondition == CallSlippage > call.riskThreshold

\* the front-run condition over the baseline the call computed, which is
\* the average of the history including the call's own sample
FrontRunCondition ==
  /\ getAverageGasPrice > 0
  /\ call.txGasPrice
       > (getAverageGasPrice * call.frontRunGasMultiplier) \div 100

RECURSIVE SeqSumRange(_, _, _)
SeqSumRange(s, lo, hi) ==
  IF hi <= lo THEN 0
  ELSE IF hi = lo + 1 THEN s[lo]
  ELSE SeqSumRange(s, lo, (lo + hi) \div 2)
       + SeqSumRange(s, (lo + hi) \div 2, hi)

SeqSum(s) == SeqSumRange(s, 1, Len(s) + 1)

\* C1: for expectedPrice > 0 an evaluated detectMEV call reports SANDWICH
\* (with the slippage as score) exactly when the floored slippage in basis
\* points is strictly above riskThreshold; 2000 against 2100 at threshold
\* 500 gives 500 and does not fire, 2000 against 2101 gives 505 and fires.
C1_SandwichIffSlippageAboveThreshold ==
  (Evaluated /\ call.expectedPrice > 0) =>
    /\ SandwichCondition <=> ret = Returned(TRUE, "SANDWICH", CallSlippage)
    /\ ~SandwichCondition => ret.threatType # "SANDWICH"
    /\ (call.expectedPrice = 2000 /\ call.riskThreshold = 500) =>
         /\ call.oracle.value = 2100 => ret.threatType # "SANDWICH"
         /\ call.oracle.value = 2101 => ret = Returned(TRUE, "SANDWICH", 505)

C1_Witness ==
  /\ Evaluated /\ call.expectedPrice = 2000 /\ call.oracle.value = 2101
  /\ call.riskThreshold = 500
  /\ ret = Returned(TRUE, "SANDWICH", 505)

\* C2: a detectMEV call with expectedPrice = 0 never returns a verdict: it
\* reverts, for an evaluated call with the division-by-zero panic, and the
\* price observation of every feed, the gas history and its cursor are the
\* same after the call as before it.
C2_ZeroExpectedPriceFails ==
  [][(calls' = calls + 1 /\ call'.expectedPrice = 0) =>
       /\ ret'.status = "revert"
       /\ (call'.caller = owner /\ call'.oracle.ok) =>
            ret'.error = "DivisionByZero"
       /\ UNCHANGED <<lastPrices, lastUpdateTimestamp, gasHistory,
                      gasHistoryIndex>>]_vars

C2_Witness ==
  /\ Evaluated /\ call.expectedPrice = 0 /\ call.oracle.value > 0
  /\ ret = Reverted("DivisionByZero")
  /\ lastPrices[call.feedId] = 0

\* C3: a detectMEV call that returns gives exactly one of (true, SANDWICH,
\* s), (true, FRONTRUN, s), (true, ARBITRAGE, s), (false, UNKNOWN, 0); it is
\* SANDWICH whenever the sandwich condition holds, whatever the gas price,
\* FRONTRUN only when the sandwich condition does not hold, and ARBITRAGE
\* only when neither the sandwich nor the front-run condition holds.
C3_FirstMatchWins ==
  Ok =>
    /\ \/ ret.isThreat /\ ret.threatType \in {"SANDWICH", "FRONTRUN", "ARBITRAGE"}
       \/ ret = Returned(FALSE, "UNKNOWN", 0)
    /\ SandwichCondition => ret.threatType = "SANDWICH"
    /\ ret.threatType = "FRONTRUN" => ~SandwichCondition /\ FrontRunCondition
    /\ ret.threatType = "ARBITRAGE" => ~SandwichCondition /\ ~FrontRunCondition

C3_Witness ==
  /\ Ok /\ SandwichCondition /\ FrontRunCondition
  /\ call.frontRunGasMultiplier = 120
  /\ ret.threatType = "SANDWICH"

\* C4: when sandwich and front-run do not fire, detectMEV returns ARBITRAGE
\* whenever the feed had a non-zero observation before the call, made at
\* most 30 seconds earlier, and the price moved by more than minPriceDelta
\* basis points against that earlier observation.
C4_ArbitrageAgainstPreviousObservation ==
  ( /\ Ok /\ ~SandwichCondition /\ ~FrontRunCondition
    /\ call.prevPrice > 0 /\ call.prevUpdate > 0
    /\ call.at - call.prevUpdate <= 30
    /\ LET c == call.oracle.value
           p == call.prevPrice
       IN ((IF c >= p THEN c - p ELSE p - c) * 10000) \div p
            > call.minPriceDelta )
  => ret = Returned(TRUE, "ARBITRAGE", 300)

\* C5: the first detectMEV call made for a feed never returns ARBITRAGE.
C5_NoArbitrageOnFirstObservation ==
  (IsDetect /\ call.firstObservation) => ret.threatType # "ARBITRAGE"

C5_Witness ==
  /\ Ok /\ call.firstObservation /\ call.oracle.value > 0
  /\ call.minPriceDelta = 0
  /\ ret = Returned(FALSE, "UNKNOWN", 0)

\* C6: a detectMEV call on a detector that has recorded no gas sample
\* before it never returns FRONTRUN.
C6_NoFrontRunOnColdStart ==
  (Ok /\ Len(samples) = 1) => ret.threatType # "FRONTRUN"

\* C7: the riskScore returned by detectMEV is within 0..10000.
C7_ScoreWithinBasisPoints ==
  Ok => ret.riskScore \in 0 .. 10000

\* C8: with no record the average is 0; after k records (1 <= k <= 100) of
\* positive gas prices g1..gk it is floor((g1 + ... + gk) / k).
C8_AverageOverWrittenSlots ==
  /\ Len(samples) = 0 => getAverageGasPrice = 0
  /\ ( /\ Len(samples) \in 1 .. 100
       /\ \A i \in 1 .. Len(samples) : samples[i] > 0 )
     => getAverageGasPrice = SeqSum(samples) \div Len(samples)

C8_Witness ==
  /\ samples = <<BaseGas, SpikeGas, BaseGas>>
  /\ getAverageGasPrice = 30

\* C9: the gas history always has exactly 100 slots and the cursor is in
\* 0..99; the n-th record lands in slot (n - 1) mod 100 and leaves the
\* cursor at n mod 100, so the buffer holds the most recent min(n, 100)
\* samples and, before the first wrap, zero in the slots never written.
C9_RingHoldsMostRecentSamples ==
  LET n == Len(samples) IN
  /\ DOMAIN gasHistory = 0 .. 99
  /\ gasHistoryIndex \in 0 .. 99
  /\ gasHistoryIndex = n % 100
  /\ \A i \in 1 .. n : i > n - 100 => gasHistory[(i - 1) % 100] = samples[i]
  /\ \A j \in 0 .. 99 : j >= n => gasHistory[j] = 0

C9_Witness ==
  /\ Len(samples) = 101
  /\ samples[1] = SpikeGas
  /\ gasHistory[0] = BaseGas
  /\ gasHistoryIndex = 1

\* C10: a feed never passed to a successful detectMEV reads (0, 0) from
\* getPriceHistory; a feed that was reads a price > 0 and a timestamp > 0.
C10_ObservedFeedsHavePositivePrice ==
  \A f \in FeedIds :
    /\ f \notin observed => getPriceHistory(f) = <<0, 0>>
    /\ f \in observed => lastPrices[f] > 0 /\ lastUpdateTimestamp[f] > 0

\* C11: evaluations are transactions, so any interleaving of evaluations on
\* different feeds is a sequence of whole detectMEV calls.  Each successful
\* call stores its gas sample in the slot at the cursor and advances the
\* cursor by exactly one, stores (oracle price, block time) for its own
\* feed and leaves the observation of every other feed unchanged; a step
\* that is no successful detectMEV call writes none of them.
C11_NoLostOrMixedWrites ==
  [][IF calls' = calls + 1 /\ ret'.status = "ok"
     THEN /\ gasHistory' =
               [gasHistory EXCEPT ![gasHistoryIndex] = call'.txGasPrice]
          /\ gasHistoryIndex' = (gasHistoryIndex + 1) % 100
          /\ lastPrices'[call'.feedId] = call'.oracle.value
          /\ lastUpdateTimestamp'[call'.feedId] = now
          /\ \A f \in FeedIds \ {call'.feedId} :
               /\ lastPrices'[f] = lastPrices[f]
               /\ lastUpdateTimestamp'[f] = lastUpdateTimestamp[f]
     ELSE UNCHANGED <<gasHistory, gasHistoryIndex, lastPrices,
                      lastUpdateTimestamp>>]_vars

C11_Witness ==
  /\ observed = FeedIds /\ Len(samples) = 2
  /\ lastPrices["ETH"] # lastPrices["USDC"]
  /\ lastUpdateTimestamp["ETH"] # lastUpdateTimestamp["USDC"]
  /\ samples[1] # samples[2]
  /\ gasHistory[0] = samples[1] /\ gasHistory[1] = samples[2]
  /\ gasHistoryIndex = 2

IsConfigure == pcall.op = "configureProtection"

\* C19: configureProtection with maxSlippage > 1000 or gasLimit < 100000 is
\* rejected and writes nothing: the stored configs, in particular one stored
\* by an earlier successful call of the same user, are as before the call;
\* so every config with isActive = true has maxSlippage <= 1000 and
\* gasLimit >= 100000 in every reachable state.
InvalidConfigLeavesStateUnchanged ==
  [][(pcall'.op = "configureProtection" /\ pcall' # pcall
      /\ (pcall'.args.maxSlippage > 1000 \/ pcall'.args.gasLimit < 100000))
     => /\ pret'.status = "revert"
        /\ pret'.error \in {"Slippage too high", "Gas limit too low"}
        /\ UNCHANGED <<detectorState, protectorState>>]_vars

ActiveConfigsValid ==
  \A u \in Users :
    userConfigs[u].isActive =>
      userConfigs[u].maxSlippage <= 1000 /\ userConfigs[u].gasLimit >= 100000

C19_InvalidConfigRejected ==
  InvalidConfigLeavesStateUnchanged /\ []ActiveConfigsValid

\* a rejected reconfiguration of a user who already holds a valid config
C19_Witness ==
  /\ IsConfigure /\ pret.status = "revert"
  /\ pret.error = "Slippage too high"
  /\ pcall.args.maxSlippage = 1001 /\ pcall.args.gasLimit = 200000
  /\ userConfigs[pcall.sender].isActive
  /\ userConfigs[pcall.sender].maxSlippage = 1000

\* C20: a successful configureProtection by u stores exactly
\* (true, strategy, maxSlippage, gasLimit, whitelistMode) as u's config,
\* whatever u's config was before, and changes no other user's config.
C20_ConfigReplacedWhole ==
  [][(pcall'.op = "configureProtection" /\ pret'.status = "ok")
     => /\ userConfigs'[pcall'.sender] =
             [isActive |-> TRUE, strategy |-> pcall'.args.strategy,
              maxSlippage |-> pcall'.args.maxSlippage,
              gasLimit |-> pcall'.args.gasLimit,
              whitelistMode |-> pcall'.args.whitelistMode]
        /\ \A u \in Users \ {pcall'.sender} :
             userConfigs'[u] = userConfigs[u]]_vars

\* two users hold different configs, the latest call was a successful
\* reconfiguration
C20_Witness ==
  /\ IsConfigure /\ pret.status = "ok" /\ pcall.sender = "user1"
  /\ userConfigs["user1"] =
       [isActive |-> TRUE, strategy |-> "DELAY", maxSlippage |-> 500,
        gasLimit |-> 100000, whitelistMode |-> FALSE]
  /\ userConfigs["user2"] =
       [isActive |-> TRUE, strategy |-> "REVERT", maxSlippage |-> 1000,
        gasLimit |-> 200000, whitelistMode |-> TRUE]

IsSwap == pcall.op = "protectSwap"

\* a step that is a protectSwap call
SwapStep == swaps' = swaps + 1

\* C12: a protectSwap call with a past deadline, a zero amountIn, a caller
\* without active config or, in whitelist mode, a tokenIn or tokenOut that is
\* not whitelisted reverts with the message of the first failing check
\* ("Swap expired", "Invalid amount", "Protection not configured", "Token
\* not whitelisted") and changes no state of the protector, the detector or
\* the token.
C12_RejectedSwapChangesNothing ==
  [][SwapStep =>
     LET p == pcall'.args.params
         c == userConfigs[pcall'.sender]
         expired == p.deadline < now
         noAmount == p.amountIn = 0
         notConfigured == ~c.isActive
         notWhitelisted == /\ c.whitelistMode
                           /\ \/ p.tokenIn \notin whitelistedTokens
                              \/ p.tokenOut \notin whitelistedTokens
     IN /\ expired => pret' = Failed("Swap expired")
        /\ ~expired /\ noAmount => pret' = Failed("Invalid amount")
        /\ ~expired /\ ~noAmount /\ notConfigured
             => pret' = Failed("Protection not configured")
        /\ ~expired /\ ~noAmount /\ ~notConfigured /\ notWhitelisted
             => pret' = Failed("Token not whitelisted")
        /\ expired \/ noAmount \/ notConfigured \/ notWhitelisted
             => UNCHANGED <<detectorState, protectorState>>]_vars

\* a funded, approved, configured caller in whitelist mode is rejected
\* because only tokenIn is whitelisted
C12_Witness ==
  /\ IsSwap /\ pret = Failed("Token not whitelisted")
  /\ pcall.args.config.isActive /\ pcall.args.config.whitelistMode
  /\ pcall.args.whitelisted = {"TKA"}
  /\ pcall.args.params.amountIn = 100
  /\ pcall.args.params.deadline >= pcall.args.at
  /\ allowance["user1"] = 100 /\ owner = "protector"
  /\ globalStats = NoStats

\* C13: under REVERT, a swap on which the detector reports a threat fails
\* with a ThreatDetected error.
C13_RevertStrategyFailsWithThreatDetected ==
  (IsSwap /\ pcall.args.config.strategy = "REVERT"
   /\ pcall.args.verdict.isThreat)
    => pret = Failed("ThreatDetected")

\* C14: under DELAY a detected threat blocks the swap (no token moves) and
\* sets priceDelays[feedId] to now + d with d = 30 + score/100 (SANDWICH),
\* 15 + score/200 (FRONTRUN), 5 + score/500 (ARBITRAGE); SANDWICH with
\* score 1000 gives now + 40.
C14_DelayBlocksAndSchedules ==
  [][/\ (SwapStep /\ pret'.status = "ok"
         /\ userConfigs[pcall'.sender].strategy = "DELAY"
         /\ pcall'.args.verdict.isThreat)
        => LET v == pcall'.args.verdict
               f == pcall'.args.params.pricefeedId
               d == CASE v.threatType = "SANDWICH" ->
                           30 + (v.riskScore \div 100)
                      [] v.threatType = "FRONTRUN" ->
                           15 + (v.riskScore \div 200)
                      [] v.threatType = "ARBITRAGE" ->
                           5 + (v.riskScore \div 500)
           IN /\ pret' = SwapReturned(FALSE, 0)
              /\ pcall'.args.stage = "blocked"
              /\ UNCHANGED <<tokenBalance, allowance>>
              /\ priceDelays' = [priceDelays EXCEPT ![f] = now + d]
              /\ (v.threatType = "SANDWICH" /\ v.riskScore = 1000)
                   => priceDelays'[f] = now + 40
     /\ _calculateDelay("SANDWICH", 1000) = 40
     /\ _calculateDelay("FRONTRUN", 4285) = 36
     /\ _calculateDelay("ARBITRAGE", 300) = 5
     /\ _calculateDelay("ARBITRAGE", 1000) = 7]_vars

\* a SANDWICH threat of score 1000 was blocked by DELAY
C14_Witness ==
  /\ IsSwap /\ pcall.args.stage = "blocked"
  /\ pcall.args.config.strategy = "DELAY"
  /\ pcall.args.verdict.threatType = "SANDWICH"
  /\ pcall.args.verdict.riskScore = 1000
  /\ priceDelays["ETH"] = pcall.args.at + 40

\* C15: a swap on a feed executes only at or after the retry-not-before
\* time recorded for the feed by an earlier DELAY block.
C15_NoExecutionBeforeRetryTime ==
  (IsSwap /\ pcall.args.stage = "executed")
    => pcall.args.at >= pcall.args.delayBefore

\* C16: under ADJUST with a detected threat, the tolerance applied by the
\* slippage check of the swap is tighter than the configured maxSlippage,
\* and the stored config is as before the call.
C16_AdjustTightensSlippage ==
  (IsSwap /\ pcall.args.config.strategy = "ADJUST"
   /\ pcall.args.verdict.isThreat
   /\ pcall.args.stage \in {"executed", "refunded"})
    => /\ pcall.args.maxSlippage < pcall.args.config.maxSlippage
       /\ userConfigs[pcall.sender] = pcall.args.config

\* C17: under ADJUST or PRIVATE_RELAY a detected threat does not block: the
\* call goes on to swap execution, threatsBlocked and priceDelays stay as
\* they were, and (the call not reverting in the token transfer)
\* threatsDetected grows by one for the user and globally.
C17_AdjustAndRelayNeverBlock ==
  [][(SwapStep
      /\ userConfigs[pcall'.sender].strategy \in {"ADJUST", "PRIVATE_RELAY"}
      /\ pcall'.args.verdict.isThreat)
     => LET u == pcall'.sender IN
        /\ pcall'.args.stage \in {"executed", "refunded", "token"}
        /\ userStats'[u].threatsBlocked = userStats[u].threatsBlocked
        /\ globalStats'.threatsBlocked = globalStats.threatsBlocked
        /\ priceDelays' = priceDelays
        /\ pret'.status = "ok"
             => /\ userStats'[u].threatsDetected =
                     userStats[u].threatsDetected + 1
                /\ globalStats'.threatsDetected =
                     globalStats.threatsDetected + 1]_vars

\* a swap under ADJUST executed although a threat was detected
C17_Witness ==
  /\ IsSwap /\ pcall.args.config.strategy = "ADJUST"
  /\ pcall.args.verdict.isThreat /\ pcall.args.stage = "executed"
  /\ pret.success /\ globalStats.threatsDetected = 1
  /\ globalStats.threatsBlocked = 0

\* C18: a swap whose output amountIn * price / 1e18 is below minAmountOut
\* returns (false, 0), leaves every tokenIn balance as before the call and
\* neither counts nor forwards a protection fee.
C18_BelowMinimumRefundsInFull ==
  [][(SwapStep /\ pret'.status = "ok" /\ pcall'.args.stage # "blocked"
      /\ (pcall'.args.params.amountIn * pcall'.args.price.value) \div WAD
           < pcall'.args.params.minAmountOut)
     => LET u == pcall'.sender IN
        /\ pret' = SwapReturned(FALSE, 0)
        /\ tokenBalance' = tokenBalance
        /\ userStats'[u].feesCollected = userStats[u].feesCollected
        /\ globalStats'.feesCollected = globalStats.feesCollected
        /\ userStats'[u].totalValueProtected =
             userStats[u].totalValueProtected
        /\ globalStats'.totalValueProtected = globalStats.totalValueProtected
        /\ \A t \in TreasuryAddresses : ethBalance'[t] = ethBalance[t]]_vars

\* the caller sent the fee with a swap that came out below minAmountOut
C18_Witness ==
  /\ IsSwap /\ pcall.args.stage = "refunded" /\ pret = SwapReturned(FALSE, 0)
  /\ pcall.args.params.amountIn = 100 /\ pcall.args.params.minAmountOut = 300
  /\ pcall.args.price.value = 2000 /\ pcall.args.value = 1
  /\ tokenBalance["user1"] = 100 /\ tokenBalance["protector"] = 0
  /\ globalStats.totalProtectedSwaps = 1 /\ globalStats.feesCollected = 0

\* a step that is a new call of the protector operation op
CallStep(op) == pcall'.op = op /\ pcall' # pcall

\* C21: an emergencyStop(u) by the owner sets isActive of u's config to
\* false and changes no other field of it and no other user's config; as
\* long as u's config is inactive every protectSwap by u reverts without
\* any state change, with "Protection not configured" unless the deadline
\* or amount check fails first; only a successful configureProtection by u
\* makes the config active again.
C21_StoppedUntilReconfigured ==
  [][/\ (CallStep("emergencyStop") /\ pret'.status = "ok")
          => \A u \in Users :
               IF u = pcall'.args.user
               THEN /\ ~userConfigs'[u].isActive
                    /\ userConfigs'[u].strategy = userConfigs[u].strategy
                    /\ userConfigs'[u].maxSlippage = userConfigs[u].maxSlippage
                    /\ userConfigs'[u].gasLimit = userConfigs[u].gasLimit
                    /\ userConfigs'[u].whitelistMode =
                         userConfigs[u].whitelistMode
               ELSE userConfigs'[u] = userConfigs[u]
     /\ (SwapStep /\ ~userConfigs[pcall'.sender].isActive)
          => /\ pret'.status = "revert"
             /\ UNCHANGED <<detectorState, protectorState>>
             /\ (pcall'.args.params.deadline >= now
                 /\ pcall'.args.params.amountIn > 0)
                  => pret' = Failed("Protection not configured")
     /\ \A u \in Users :
          (~userConfigs[u].isActive /\ userConfigs'[u].isActive)
            => /\ pcall'.op = "configureProtection"
               /\ pcall'.sender = u
               /\ pret'.status = "ok"]_vars

\* a user who was configured, funded and then stopped has a swap rejected,
\* the other user being still active
C21_Witness ==
  /\ IsSwap /\ pcall.sender = "user1"
  /\ pret = Failed("Protection not configured")
  /\ ~userConfigs["user1"].isActive
  /\ userConfigs["user1"].strategy = "PRIVATE_RELAY"
  /\ userConfigs["user1"].maxSlippage = 500
  /\ userConfigs["user2"].isActive
  /\ allowance["user1"] = 100 /\ owner = "protector"

\* C22: protectionFee is 100 before any call and at most 500 in every
\* reachable state; setProtectionFee with newFee > 500 reverts and leaves
\* the fee as it was.
C22_ProtectionFeeCapped ==
  /\ [](/\ protectionFee <= 500
        /\ pcall.op = "none" => protectionFee = 100)
  /\ [][(CallStep("setProtectionFee") /\ pcall'.args.newFee > 500)
          => /\ pret'.status = "revert"
             /\ protectionFee' = protectionFee]_vars

\* the owner raised the fee to the cap and is then refused 501
C22_Witness ==
  /\ pcall.op = "setProtectionFee" /\ pcall.sender = "owner"
  /\ pcall.args.newFee = 501 /\ pret = Failed("Fee too high")
  /\ protectionFee = 500

\* the step is a call of the MEVProtector operation op
MevCallStep(op) == mcall'.op = op /\ mcall' # mcall

\* C23: checkPriceAnomaly never uses a price that is missing or at least
\* 300 seconds old: with no price stored for the symbol (the stored price
\* is 0) it fails with "No oracle price available", with a stored price
\* whose age now - lastOracleUpdate[symbol] is 300 or more it fails with
\* "Oracle price too old", and otherwise it returns true exactly when
\* floor(|currentPrice - oraclePrice| * 10000 / oraclePrice) exceeds
\* priceDeviationThreshold; the view changes nothing.
C23_StalePriceRejected ==
  [][MevCallStep("checkPriceAnomaly") =>
       LET symbol == mcall'.args.symbol
           currentPrice == mcall'.args.currentPrice
           oraclePrice == lastOraclePrices[symbol]
           age == now - lastOracleUpdate[symbol]
           diff == IF currentPrice >= oraclePrice
                   THEN currentPrice - oraclePrice
                   ELSE oraclePrice - currentPrice
       IN /\ oraclePrice = 0
               => mret' = Failed("No oracle price available")
          /\ (oraclePrice > 0 /\ age >= 300)
               => mret' = Failed("Oracle price too old")
          /\ (oraclePrice > 0 /\ age < 300)
               => /\ mret'.status = "ok"
                  /\ mret'.value
                       = ((diff * 10000) \div oraclePrice
                            > priceDeviationThreshold)
          /\ UNCHANGED <<mevProtectorState, now>>]_vars

\* a price of 2000 stored exactly 300 seconds ago is refused
C23_Witness ==
  /\ mcall.op = "checkPriceAnomaly"
  /\ mcall.at = now
  /\ lastOraclePrices[mcall.args.symbol] = 2000
  /\ now - lastOracleUpdate[mcall.args.symbol] = 300
  /\ mret = Failed("Oracle price too old")

\* the latest analytics step was an analysis, recorded in acall
IsAnalysis == acall.op = "analyzeMEVPatterns"

\* the score the analytics give acall's transaction with another gas price
ScoreAtGasPrice(gasPrice) ==
  calculateRiskScore(acall.recent,
                     [acall.transaction EXCEPT !.gasPrice = gasPrice],
                     acall.avgGasPrice, acall.blockTimestamp)

\* the score the analytics give acall's transaction with another value
ScoreAtValue(value) ==
  calculateRiskScore(acall.recent,
                     [acall.transaction EXCEPT !.value = value],
                     acall.avgGasPrice, acall.blockTimestamp)

\* C24: calculateRiskScore is always an integer from 0 to 100: the score
\* of every analysed transaction, and the score of every transaction,
\* average gas price and timestamp over every cache the analytics reach.
C24_ScoreWithinRange ==
  /\ IsAnalysis => acall.riskScore \in 0..100
  /\ \A to \in Contracts, gasPrice \in TxGasPrices, value \in TxValues,
        avgGasPrice \in AvgGasPrices, blockTimestamp \in BlockTimestamps :
       calculateRiskScore(recentTransactions,
                          Transaction("0xb", to, gasPrice, value,
                                      blockTimestamp),
                          avgGasPrice, blockTimestamp) \in 0..100

\* every contribution applies (30 + 25 + 25 + 20 + 15 = 115) and the score
\* is 100
C24_Witness ==
  /\ IsAnalysis
  /\ acall.avgGasPrice > 0
  /\ acall.transaction.gasPrice > 2 * acall.avgGasPrice
  /\ acall.transaction.value > 10 * WAD
  /\ acall.sandwich
  /\ acall.frontRun
  /\ acall.arbitrage
  /\ acall.riskScore = 100

\* C25: raising the gas price of the analysed transaction, everything else
\* (value, target, average gas price, timestamp, cache) fixed, never
\* lowers its score.
C25_GasPriceMonotonic ==
  IsAnalysis =>
    \A gasPrice \in TxGasPrices :
      gasPrice >= acall.transaction.gasPrice
        => ScoreAtGasPrice(gasPrice) >= acall.riskScore

\* C26: raising the value of the analysed transaction, everything else
\* (gas price, target, average gas price, timestamp, cache) fixed, never
\* lowers its score.
C26_ValueMonotonic ==
  IsAnalysis =>
    \A value \in TxValues :
      value >= acall.transaction.value
        => ScoreAtValue(value) >= acall.riskScore

\* a transaction of exactly 1 ETH at a positive gas price, which scores
\* strictly higher with any more value
C26_Witness ==
  /\ IsAnalysis
  /\ acall.transaction.value = WAD
  /\ acall.transaction.gasPrice > 0
  /\ ScoreAtValue(WAD + 1) > acall.riskScore
  /\ ScoreAtValue(10 * WAD + 1) > ScoreAtValue(WAD + 1)

\* the tier tables: only the highest matching tier of a factor counts
GasTier(gasPrice, avgGasPrice) ==
  IF avgGasPrice = 0 THEN 0
  ELSE IF gasPrice > 2 * avgGasPrice THEN 30
  ELSE IF 2 * gasPrice > 3 * avgGasPrice THEN 20
  ELSE IF 5 * gasPrice > 6 * avgGasPrice THEN 10
  ELSE 0

ValueTier(value) ==
  IF value > 10 * WAD THEN 25 ELSE IF value > WAD THEN 15 ELSE 0

\* C27: when none of the three detectors fires the score is the gas tier
\* plus the value tier, one tier per factor.
C27_TiersDoNotStack ==
  (IsAnalysis /\ ~acall.sandwich /\ ~acall.frontRun /\ ~acall.arbitrage)
    => acall.riskScore
         = GasTier(acall.transaction.gasPrice, acall.avgGasPrice)
           + ValueTier(acall.transaction.value)

\* gas ratio 2.5 with 0.5 ETH and no detector firing scores exactly 30
C27_Witness ==
  /\ IsAnalysis
  /\ acall.transaction.gasPrice = 50
  /\ acall.avgGasPrice = 20
  /\ acall.transaction.value = 500
  /\ ~acall.sandwich /\ ~acall.frontRun /\ ~acall.arbitrage
  /\ acall.riskScore = 30

\* C28: every saved MEVAlert has the severity of its risk score: CRITICAL
\* above 75, HIGH above 50 up to 75, MEDIUM above 25 up to 50, LOW up to 25.
C28_SeverityMatchesScore ==
  \A id \in DOMAIN alerts :
    LET alert == alerts[id]
    IN /\ alert.severity \in {"CRITICAL", "HIGH", "MEDIUM", "LOW"}
       /\ alert.severity = "CRITICAL" <=> alert.riskScore > 75
       /\ alert.severity = "HIGH"
            <=> (50 < alert.riskScore /\ alert.riskScore <= 75)
       /\ alert.severity = "MEDIUM"
            <=> (25 < alert.riskScore /\ alert.riskScore <= 50)
       /\ alert.severity = "LOW" <=> alert.riskScore <= 25

\* alerts of all three handlers are stored, createMEVAlert's at exactly 75
\* and the analysis' above it
C28_Witness ==
  /\ {<<"0xt", "alert">>, <<"0xd", "high-gas">>, <<"0xc", "POTENTIAL_MEV">>,
      <<"0xa", "SANDWICH">>} \subseteq DOMAIN alerts
  /\ alerts[<<"0xc", "POTENTIAL_MEV">>].riskScore = 75
  /\ alerts[<<"0xa", "SANDWICH">>].riskScore > 75

\* C29: with an average gas price of 0 the front-run detector does not
\* fire for the analysed transaction, so its 20 points are not in the score.
C29_NoFrontRunOnColdStart ==
  (IsAnalysis /\ acall.avgGasPrice = 0) => ~acall.frontRun

\* the values the setters of MEVDetector are called with
ThresholdInputs == {0, 100, 120, 150, 300, 500}

RestrictedProtectorOps ==
  {"setProtectionFee", "removeWhitelistedToken", "setTreasury",
   "updateDetector", "emergencyStop"}

\* C30: a restricted operation called by anyone but the authorized caller
\* reverts and changes nothing of its contract, and only the authorized
\* caller's call succeeds: the owner for MEVDetector's detectMEV and its
\* three setters and for MEVProtectorAdvanced's setProtectionFee,
\* add/removeWhitelistedToken, setTreasury, updateDetector and
\* emergencyStop; the authorized indexer for MEVProtector's
\* detectMEVThreat and updateOraclePrice.
C30_UnauthorizedRejected ==
  [][/\ (call'.op = "detectMEV" /\ calls' = calls + 1)
          => /\ call'.caller # owner
                  => ret' = Reverted("NotOwner") /\ UNCHANGED detectorState
             /\ ret'.status = "ok" => call'.caller = owner
     /\ \A caller \in Addresses \ {owner}, v \in ThresholdInputs :
          (\/ setRiskThreshold(caller, v)
           \/ setMinPriceDelta(caller, v)
           \/ setFrontRunGasMultiplier(caller, v))
            => UNCHANGED detectorState
     /\ <<riskThreshold, minPriceDelta, frontRunGasMultiplier>>'
          # <<riskThreshold, minPriceDelta, frontRunGasMultiplier>>
          => \E v \in ThresholdInputs :
               \/ setRiskThreshold(owner, v)
               \/ setMinPriceDelta(owner, v)
               \/ setFrontRunGasMultiplier(owner, v)
     /\ (pcall'.op \in RestrictedProtectorOps
         /\ <<pcall, pret>>' # <<pcall, pret>>)
          => /\ pcall'.sender # ProtectorOwner
                  => pret' = Failed(NotOwnerError) /\ UNCHANGED protectorState
             /\ pret'.status = "ok" => pcall'.sender = ProtectorOwner
     /\ \A caller \in Addresses \ {ProtectorOwner}, token \in Tokens :
          addWhitelistedToken(caller, token) => UNCHANGED protectorState
     /\ whitelistedTokens' # whitelistedTokens
          => \E token \in Tokens :
               \/ addWhitelistedToken(ProtectorOwner, token)
               \/ removeWhitelistedToken(ProtectorOwner, token)
     /\ (mcall'.op \in {"detectMEVThreat", "updateOraclePrice"}
         /\ <<mcall, mret>>' # <<mcall, mret>>)
          => /\ mcall'.sender # authorizedIndexer
                  => /\ mret' = Failed(IndexerError)
                     /\ UNCHANGED mevProtectorState
             /\ mret'.status = "ok" => mcall'.sender = authorizedIndexer
    ]_vars

\* the owner, who is not the indexer, is refused an oracle update after
\* the indexer stored a price
C30_Witness ==
  /\ authorizedIndexer = "indexer"
  /\ lastOraclePrices["ETH"] = 2000
  /\ mcall.op = "updateOraclePrice"
  /\ mcall.sender = MevProtectorOwner
  /\ mcall.args.price = 2100
  /\ mret = Failed(IndexerError)

\* C34: an analysed transaction with a score above 50 gets the generic
\* POTENTIAL_MEV alert only when no detector gave it a specific alert, and
\* a transaction with a score of 50 or less gets no alert and isMEV false.
C34_GenericAlertOnlyWithoutSpecific ==
  IsAnalysis =>
    /\ "POTENTIAL_MEV" \in acall.created
         => acall.created = {"POTENTIAL_MEV"}
    /\ acall.riskScore <= 50
         => /\ acall.created = {}
            /\ ~transactions[acall.transaction.hash].isMEV

\* the gas samples recorded before the latest detectMEV call
PriorSamples ==
  IF ret.status = "ok" THEN SubSeq(samples, 1, Len(samples) - 1) ELSE samples

\* the front-run check of the latest call was true: the call returned
\* FRONTRUN, or panicked computing the score of a gas price below the average
FrontRunFired ==
  \/ ret.status = "ok" /\ ret.threatType = "FRONTRUN"
  \/ ret = Reverted("ArithmeticPanic")

RECURSIVE StatSum(_, _)
\* the sum of one counter over the users of S
StatSum(S, counter) ==
  IF S = {} THEN 0
  ELSE LET u == CHOOSE x \in S : TRUE
       IN userStats[u][counter] + StatSum(S \ {u}, counter)

StatCounters ==
  {"totalProtectedSwaps", "threatsDetected", "threatsBlocked",
   "totalValueProtected", "feesCollected"}

StatsOrdered(stats) ==
  /\ stats.threatsBlocked <= stats.threatsDetected
  /\ stats.threatsDetected <= stats.totalProtectedSwaps

StatsConsistent ==
  /\ \A u \in Users : StatsOrdered(userStats[u])
  /\ StatsOrdered(globalStats)
  /\ \A counter \in StatCounters :
       globalStats[counter] = StatSum(Users, counter)

C37_SwapNeedsDetectorOwnership ==
  [][(SwapStep /\ pcall'.args.stage # "guards" /\ owner # "protector")
      => /\ pret'.status = "revert"
         /\ pcall'.args.stage \in {"oracle", "detector"}
         /\ pcall'.args.stage = "detector" => pret'.error = "NotOwner"
         /\ UNCHANGED <<detectorState, protectorState>>]_vars

\* a configured user's swap reverted at the detector, which the deployer owns
C37_Witness ==
  /\ IsSwap /\ pcall.args.stage = "detector"
  /\ pret = Failed("NotOwner")
  /\ owner = "owner"
  /\ pcall.args.config.isActive

\* native value the treasuries have received
TreasuryReceived == ethBalance["treasury"] + ethBalance["treasury2"]

TokenCallStep(op) ==
  /\ mcall'.op = op
  /\ <<mevProtectorVars, tokenVars>>' # <<mevProtectorVars, tokenVars>>

ProtectionFlagsAgree ==
  \A u \in Users : isProtected[u] <=> protectionLevel[u] >= 1

\* C31: activateProtection succeeds only when the caller's stake-derived
\* level is at least 1 and then records that level, deactivateProtection
\* resets both flags, and in every reachable state isProtected[u] holds
\* exactly when protectionLevel[u] >= 1.
C31_ProtectedIffLevelPositive ==
  /\ []ProtectionFlagsAgree
  /\ [][/\ TokenCallStep("activateProtection")
             => LET u == mcall'.sender IN
                IF mret'.status = "ok"
                THEN /\ getProtectionLevel(u) >= 1
                     /\ isProtected'[u]
                     /\ protectionLevel'[u] = getProtectionLevel(u)
                ELSE UNCHANGED <<isProtected, protectionLevel>>
        /\ (TokenCallStep("deactivateProtection") /\ mret'.status = "ok")
             => LET u == mcall'.sender IN
                /\ ~isProtected'[u]
                /\ protectionLevel'[u] = 0]_vars

\* user2 activated at level 2 with 100 AEG staked; user1, with 5 AEG staked,
\* is not protected
C31_Witness ==
  /\ mcall.op = "activateProtection" /\ mcall.sender = "user2"
  /\ mret.status = "ok"
  /\ stakedBalance["user2"] = 100
  /\ isProtected["user2"] /\ protectionLevel["user2"] = 2
  /\ stakedBalance["user1"] = 5
  /\ ~isProtected["user1"] /\ protectionLevel["user1"] = 0

\* C32: a detectMEVThreat call by the indexer with the target, attacker,
\* threat type and transaction data of a threat already recorded is rejected
\* with "Threat already detected" and records nothing, whenever it is made.
C32_RepeatedDetectionRejected ==
  [][( /\ TokenCallStep("detectMEVThreat")
       /\ mcall'.sender = authorizedIndexer
       /\ \E id \in detectedThreats :
            /\ threats[id].target = mcall'.args.target
            /\ threats[id].attacker = mcall'.args.attacker
            /\ threats[id].threatType = mcall'.args.threatType
            /\ id[5] = mcall'.args.transactionData )
      => /\ mret' = Failed("Threat already detected")
         /\ detectedThreats' = detectedThreats
         /\ threats' = threats]_vars

\* C33: the AEG total supply stays at the 10,000,000 minted at deployment
\* after any sequence of stakes, unstakes, claims, transfers, threat
\* detections and threat reports.
C33_TotalSupplyFixed == totalSupply = TOTAL_SUPPLY

AlertsCaughtUp ==
  \A i \in 1 .. Len(mevAlerts) :
    mevAlerts[i] >= startBlock => processedAlerts[i] >= 1

\* C40: while the monitor runs after its one start(), every alert the
\* subgraph holds with a block number at or after the block observed at
\* start is eventually passed to processAlert, exactly once, whatever the
\* interleaving of the poll timer with the indexer; lastBlockProcessed never
\* decreases.  (The subgraph indexes finitely many blocks, so "every alert
\* eventually" is "infinitely often all of them".)
C40_EveryAlertProcessedOnce ==
  /\ []<>(isRunning => AlertsCaughtUp)
  /\ [](\A i \in 1 .. Len(mevAlerts) : processedAlerts[i] <= 1)
  /\ [][lastBlockProcessed' >= lastBlockProcessed]_vars

====
